---- MODULE Spec2Model ----
(***************************************************************************)
(* Verification model of the coach-database repository: the career         *)
(* timeline builder, the salary store and its read-time resolution, the    *)
(* coach matcher, the change detector and the normalizers.                 *)
(*                                                                         *)
(* Each component has its own variables and its own specification; a       *)
(* specification leaves the variables of the other components idle.        *)
(* Text is modelled by strings; a character is a string of length one.     *)
(***************************************************************************)
EXTENDS Integers, Sequences, FiniteSets, TLC

VARIABLES
    pc,          \* position of the handler / script that the specification runs
    rows,        \* get_coach_career: the result set of the SQL query
    stints,      \* get_coach_career: the response
    name,        \* normalize_school_slug: the display name passed in
    slug,        \* normalize_school_slug: the slug returned
    value,       \* money parsers: the text to parse
    amount,      \* money parsers: parser |-> result, for the parsers that ran
    coach_name,  \* name repair: the scraped display name
    fixed,       \* name repair: function |-> returned name, for those that ran
    coaches,     \* table coaches, in rowid order (id = position)
    person_name, \* matcher: the name searched for
    match,       \* matcher: <<>> for None, or <<id>> of the returned row
    schools,     \* table schools, in rowid order
    salaries,    \* table salaries, in rowid order
    op,          \* the last call on the store: its arguments and its result
    from_rows,   \* get_changes: load_year(from_year)
    to_rows,     \* get_changes: load_year(to_year)
    changes,     \* get_changes: the response
    prev_coaches, \* detect_changes: the coaches of the previous snapshot
    curr_coaches, \* detect_changes: the coaches of the current snapshot
    events,      \* detect_changes: the events returned
    combined,    \* extract_salary: the text of the search results
    salary_range, \* extract_salary: <<min_salary, max_salary>>
    extracted,   \* extract_salary: <<>> for (None, None), or <<amount, raw_text>>
    salary_sources,      \* table salary_sources, in rowid order
    play_callers,        \* table play_callers: <<school_id, season>> |-> row
    play_caller_changes, \* table play_caller_changes, in rowid order
    staff,           \* media_enrichment: the coaches to search, filtered and sorted
    cli,             \* media_enrichment: the command-line arguments
    output_file,     \* media_enrichment: the reports of the output file, if it exists
    existing_reports, \* media_enrichment: existing, the reports loaded for --resume
    reports,         \* media_enrichment: the reports gathered
    searched,        \* media_enrichment: the number of coaches searched
    cursor,          \* media_enrichment: the position of the loop in staff
    retry,           \* brave_search_with_retries: query, attempt, calls, waits, last error
    searched_keys,   \* media_enrichment: the keys enrich_coach was called for, in order
    processed_hashes, \* staff_update_monitor: state['processed_hashes'], hash |-> day marked
    last_run,        \* staff_update_monitor: state['last_run'], <<>> for None
    clock,           \* staff_update_monitor: datetime.now(), in days
    run_no,          \* staff_update_monitor: the number of runs started
    monitor_args,    \* staff_update_monitor: the command-line arguments of the run
    all_articles,    \* staff_update_monitor: the articles collected by the run
    article_no,      \* staff_update_monitor: the position of process_articles in the list
    stats,           \* staff_update_monitor: the counters of process_articles
    webhook_posts,   \* staff_update_monitor: the payloads the webhook received
    extraction_log   \* staff_update_monitor: the calls of extract_coaching_changes

careerVars == <<rows, stints>>
slugVars == <<name, slug>>
moneyVars == <<value, amount>>
repairVars == <<coach_name, fixed>>
matchVars == <<person_name, match>>
storeVars == <<schools, salaries, op>>
changeVars == <<from_rows, to_rows, changes>>
trackVars == <<prev_coaches, curr_coaches, events>>
extractVars == <<combined, salary_range, extracted>>
callerVars == <<salary_sources, play_callers, play_caller_changes>>
mediaVars == <<staff, cli, output_file, existing_reports, reports, searched, cursor, retry,
               searched_keys>>
monitorVars == <<processed_hashes, last_run, clock, run_no, monitor_args, all_articles,
                 article_no, stats, webhook_posts, extraction_log>>

vars == <<pc, careerVars, slugVars, moneyVars, repairVars, coaches, matchVars, storeVars,
          changeVars, trackVars, extractVars, callerVars, mediaVars, monitorVars>>

\* A specification runs the components in ks; the variables of the other
\* components stay at their initial values.
Idle(ks) ==
    /\ IF "career" \in ks THEN TRUE ELSE rows = <<>> /\ stints = <<>>
    /\ IF "slug" \in ks THEN TRUE ELSE name = "" /\ slug = ""
    /\ IF "money" \in ks THEN TRUE ELSE value = "" /\ amount = <<>>
    /\ IF "repair" \in ks THEN TRUE ELSE coach_name = "" /\ fixed = <<>>
    /\ IF "roster" \in ks THEN TRUE ELSE coaches = <<>>
    /\ IF "match" \in ks THEN TRUE ELSE person_name = "" /\ match = <<>>
    /\ IF "store" \in ks THEN TRUE ELSE schools = <<>> /\ salaries = <<>> /\ op = <<>>
    /\ IF "changes" \in ks THEN TRUE
       ELSE from_rows = <<>> /\ to_rows = <<>> /\ changes = <<>>
    /\ IF "track" \in ks THEN TRUE
       ELSE prev_coaches = <<>> /\ curr_coaches = <<>> /\ events = <<>>
    /\ IF "extract" \in ks THEN TRUE
       ELSE combined = "" /\ salary_range = <<>> /\ extracted = <<>>
    /\ IF "callers" \in ks THEN TRUE
       ELSE salary_sources = <<>> /\ play_callers = <<>> /\ play_caller_changes = <<>>
    /\ IF "media" \in ks THEN TRUE
       ELSE /\ staff = <<>> /\ cli = <<>> /\ output_file = <<>> /\ existing_reports = <<>>
            /\ reports = <<>> /\ searched = 0 /\ cursor = 0 /\ retry = <<>>
            /\ searched_keys = <<>>
    /\ IF "monitor" \in ks THEN TRUE
       ELSE /\ processed_hashes = <<>> /\ last_run = <<>> /\ clock = 0 /\ run_no = 0
            /\ monitor_args = <<>> /\ all_articles = <<>> /\ article_no = 0
            /\ stats = <<>> /\ webhook_posts = <<>> /\ extraction_log = <<>>

Frame(ks) ==
    /\ IF "career" \in ks THEN TRUE ELSE UNCHANGED careerVars
    /\ IF "slug" \in ks THEN TRUE ELSE UNCHANGED slugVars
    /\ IF "money" \in ks THEN TRUE ELSE UNCHANGED moneyVars
    /\ IF "repair" \in ks THEN TRUE ELSE UNCHANGED repairVars
    /\ IF "roster" \in ks THEN TRUE ELSE UNCHANGED coaches
    /\ IF "match" \in ks THEN TRUE ELSE UNCHANGED matchVars
    /\ IF "store" \in ks THEN TRUE ELSE UNCHANGED storeVars
    /\ IF "changes" \in ks THEN TRUE ELSE UNCHANGED changeVars
    /\ IF "track" \in ks THEN TRUE ELSE UNCHANGED trackVars
    /\ IF "extract" \in ks THEN TRUE ELSE UNCHANGED extractVars
    /\ IF "callers" \in ks THEN TRUE ELSE UNCHANGED callerVars
    /\ IF "media" \in ks THEN TRUE ELSE UNCHANGED mediaVars
    /\ IF "monitor" \in ks THEN TRUE ELSE UNCHANGED monitorVars

(***************************************************************************)
(* Generic helpers                                                         *)
(***************************************************************************)
\* SQL NULL / Python None for text columns.
None == "None"

\* Rank of a text value in lexicographic order ('' < 'A' < ...), as SQLite's
\* BINARY collation and Python's str comparison order the values used here.
StrRank(s) ==
    LET order == <<"", "A", "B", "Unknown", "X", "Y">>
    IN  CHOOSE i \in 1..Len(order) : order[i] = s

\* COALESCE(x, '')
Coalesce(x) == IF x = None THEN "" ELSE x

(***************************************************************************)
(* Text: str methods and the regular expressions the scripts use           *)
(***************************************************************************)
\* s[a-1:b] for 1-based inclusive a..b, empty when the range is
Sub(s, a, b) ==
    IF a < 1 \/ a > b \/ a > Len(s) THEN ""
    ELSE SubSeq(s, a, IF b > Len(s) THEN Len(s) ELSE b)

\* s[i-1], or '' outside s
Ch(s, i) == Sub(s, i, i)

UpperAZ == "ABCDEFGHIJKLMNOPQRSTUVWXYZ"
LowerAZ == "abcdefghijklmnopqrstuvwxyz"
Digits == "0123456789"

\* c in s, for a one-character c
InChars(c, s) == \E i \in 1..Len(s) : Ch(s, i) = c

\* str.lower() of one character
LowerChar(c) ==
    IF InChars(c, UpperAZ)
    THEN Ch(LowerAZ, CHOOSE i \in 1..26 : Ch(UpperAZ, i) = c)
    ELSE c

\* Character-wise rewriting: every character c of s becomes F(c).
MapText(s, F(_)) ==
    LET over[t \in {s}] ==
            LET RECURSIVE part(_, _)
                part(lo, hi) ==
                    IF lo > hi THEN ""
                    ELSE IF lo = hi THEN F(Ch(t, lo))
                    ELSE part(lo, (lo + hi) \div 2) \o part((lo + hi) \div 2 + 1, hi)
            IN  part(1, Len(t))
    IN  over[s]

\* str.lower()
ToLower(s) == MapText(s, LowerChar)

\* str.strip(chars): leading and trailing characters of `chars` removed.
RECURSIVE StripChars(_, _)
StripChars(s, chars) ==
    IF s = "" THEN ""
    ELSE IF InChars(Ch(s, 1), chars) THEN StripChars(Sub(s, 2, Len(s)), chars)
    ELSE IF InChars(Ch(s, Len(s)), chars) THEN StripChars(Sub(s, 1, Len(s) - 1), chars)
    ELSE s

(***************************************************************************)
(* Career Timeline Builder: api/main.py get_coach_career                   *)
(***************************************************************************)
\* Number of rows the coaches table holds for the requested name.
MaxRows == 3

\* SQL NULL in the integer column coaches.year.
NullYear == 0

Years == {NullYear} \cup (2019..2021)

\* One row of the SELECT at main.py:237. The LEFT JOIN gives school and
\* school_slug NULL to a coach whose school_id matches no school.
RowOptions ==
    { [year |-> y, position |-> p, is_head_coach |-> h,
       school |-> s.school, school_slug |-> s.school_slug] :
         y \in Years, p \in {"X", "Y"}, h \in {0, 1},
         s \in { [school |-> "A", school_slug |-> "a"],
                 [school |-> "B", school_slug |-> "b"],
                 [school |-> None, school_slug |-> None] } }

\* ORDER BY c.year ASC, COALESCE(s.name,'') ASC, COALESCE(c.position,'') ASC
\* (SQLite sorts NULL before every integer; NullYear is below every year).
OrderByLeq(r1, r2) ==
    \/ r1.year < r2.year
    \/ /\ r1.year = r2.year
       /\ \/ StrRank(Coalesce(r1.school)) < StrRank(Coalesce(r2.school))
          \/ /\ r1.school = r2.school
             /\ StrRank(Coalesce(r1.position)) <= StrRank(Coalesce(r2.position))

\* The de-dupe loop at main.py:248-255: the first row of every
\* key = (year, school_slug, school, position, int(is_head_coach or 0)) is kept.
Dedupe(rs) ==
    LET key(r) == <<r.year, r.school_slug, r.school, r.position, r.is_head_coach>>
        RECURSIVE loop(_, _, _)
        loop(i, seen, records) ==
            IF i > Len(rs) THEN records
            ELSE IF key(rs[i]) \in seen
                 THEN loop(i + 1, seen, records)
                 ELSE loop(i + 1, seen \cup {key(rs[i])}, Append(records, rs[i]))
    IN  loop(1, {}, <<>>)

\* school = rec.get('school') or 'Unknown'
SchoolOrUnknown(rec) == IF rec.school = None THEN "Unknown" ELSE rec.school

\* A plausible slip: any later year continues the stint.
ConsecutiveAnyLater(current, year) == year > current.end_year

\* consecutive at main.py:269
Consecutive(current, year) == year = current.end_year + 1

\* The stint loop at main.py:257-284. current is <<>> (None) or <<stint>>.
RECURSIVE StintLoop(_, _, _, _)
StintLoop(records, i, out, current) ==
    IF i > Len(records) THEN out \o current
    ELSE LET rec == records[i]
             same_place ==
                 <<current[1].school_slug, current[1].school, current[1].position>>
                     = <<rec.school_slug, SchoolOrUnknown(rec), rec.position>>
             new == [school |-> SchoolOrUnknown(rec),
                     school_slug |-> rec.school_slug, position |-> rec.position,
                     start_year |-> rec.year, end_year |-> rec.year]
         IN
         IF rec.year = NullYear THEN StintLoop(records, i + 1, out, current)
         ELSE IF current # <<>> /\ same_place /\ Consecutive(current[1], rec.year)
              THEN StintLoop(records, i + 1, out,
                             <<[current[1] EXCEPT !.end_year = rec.year]>>)
              ELSE StintLoop(records, i + 1, out \o current, <<new>>)

\* stints.sort(key=lambda s: (s['end_year'], s['start_year']), reverse=True):
\* the sort is stable, so an element goes behind every element whose key is
\* greater or equal.
SortStints(ss) ==
    LET geq(s1, s2) == \/ s1.end_year > s2.end_year
                       \/ s1.end_year = s2.end_year /\ s1.start_year >= s2.start_year
        RECURSIVE insert(_, _)
        insert(sorted, s) ==
            IF sorted = <<>> THEN <<s>>
            ELSE IF geq(Head(sorted), s)
                 THEN <<Head(sorted)>> \o insert(Tail(sorted), s)
                 ELSE <<s>> \o sorted
        RECURSIVE sort(_)
        sort(i) == IF i = 0 THEN <<>> ELSE insert(sort(i - 1), ss[i])
    IN  sort(Len(ss))

\* The response of get_coach_career for the result set rs.
CareerStints(rs) == SortStints(StintLoop(Dedupe(rs), 1, <<>>, <<>>))

CareerInit ==
    /\ pc = "fetch"
    /\ rows = <<>>
    /\ stints = <<>>
    /\ Idle({"career"})

\* The cursor yields the next row of the result set, in ORDER BY order
\* (rows that tie under ORDER BY come in either order).
FetchRow ==
    /\ pc = "fetch"
    /\ Len(rows) < MaxRows
    /\ \E r \in RowOptions :
          /\ IF rows = <<>> THEN TRUE ELSE OrderByLeq(rows[Len(rows)], r)
          /\ rows' = Append(rows, r)
    /\ UNCHANGED <<pc, stints>>
    /\ Frame({"career"})

\* get_coach_career, from the complete result set to the response.
GetCoachCareer ==
    /\ pc = "fetch"
    /\ stints' = CareerStints(rows)
    /\ pc' = "done"
    /\ UNCHANGED rows
    /\ Frame({"career"})

CareerNext == FetchRow \/ GetCoachCareer

(***************************************************************************)
(* Claims on the career timeline                                           *)
(***************************************************************************)
RowPlace(r) == <<r.school_slug, SchoolOrUnknown(r), r.position>>

StintPlace(s) == <<s.school_slug, s.school, s.position>>

\* After removal of exact duplicates no two rows share a year.
OneRowPerYear(rs) ==
    LET records == Dedupe(rs) IN
    \A i, j \in 1..Len(records) :
       (i # j /\ records[i].year # NullYear) => records[i].year # records[j].year

HeldIn(rs, place, y) ==
    \E i \in 1..Len(rs) : rs[i].year = y /\ y # NullYear /\ RowPlace(rs[i]) = place

\* The maximal runs of consecutive years at one place.
MaximalRuns(rs) ==
    { run \in [place : {RowPlace(rs[i]) : i \in 1..Len(rs)},
               start_year : Years \ {NullYear}, end_year : Years \ {NullYear}] :
        /\ run.start_year <= run.end_year
        /\ \A y \in run.start_year..run.end_year : HeldIn(rs, run.place, y)
        /\ ~HeldIn(rs, run.place, run.start_year - 1)
        /\ ~HeldIn(rs, run.place, run.end_year + 1) }

StintRuns(ss) ==
    { [place |-> StintPlace(ss[i]), start_year |-> ss[i].start_year,
       end_year |-> ss[i].end_year] : i \in 1..Len(ss) }

RowAX(y) == [year |-> y, position |-> "X", is_head_coach |-> 0,
             school |-> "A", school_slug |-> "a"]

StintAX(a, b) == [school |-> "A", school_slug |-> "a", position |-> "X",
                  start_year |-> a, end_year |-> b]

\* C1: when the de-duplicated rows hold one row per year, the stints of
\* get_coach_career are exactly the maximal runs of consecutive years at one
\* (school_slug, school, position), one stint per run; years 2019,2020,2021
\* at A/X give the single stint 2019-2021 and years 2019,2021 give the two
\* stints 2021-2021 and 2019-2019.
C1_ConsecutiveYearsCollapse ==
    (pc = "done" /\ OneRowPerYear(rows)) =>
       /\ StintRuns(stints) = MaximalRuns(rows)
       /\ Len(stints) = Cardinality(MaximalRuns(rows))
       /\ rows = <<RowAX(2019), RowAX(2020), RowAX(2021)>>
             => stints = <<StintAX(2019, 2021)>>
       /\ rows = <<RowAX(2019), RowAX(2021)>>
             => stints = <<StintAX(2021, 2021), StintAX(2019, 2019)>>

C1_Witness ==
    /\ pc = "done"
    /\ rows = <<RowAX(2019), RowAX(2020), RowAX(2021)>>
    /\ stints = <<StintAX(2019, 2021)>>

\* C17: the stint list never holds two stints of one (school_slug, school,
\* position) whose year ranges overlap or touch.
C17_NoTouchingStintsOfOnePlace ==
    pc = "done" =>
        \A i, j \in 1..Len(stints) :
            (i # j /\ StintPlace(stints[i]) = StintPlace(stints[j]))
                => \/ stints[i].end_year + 1 < stints[j].start_year
                   \/ stints[j].end_year + 1 < stints[i].start_year

(***************************************************************************)
(* School slugs: scripts/scrape_usatoday.py normalize_school_slug          *)
(***************************************************************************)
\* re.sub(r"[^a-z0-9\\s\\-]", "", slug): inside the raw string the class reads
\* a-z, 0-9, an escaped backslash, the letter s, an escaped backslash and a
\* hyphen, so white space is not in it and is deleted like punctuation.
SlugKeep(c) ==
    IF InChars(c, LowerAZ) \/ InChars(c, Digits) \/ c = "\\" \/ c = "-"
    THEN c ELSE ""

\* re.sub(r"\\s+", "-", slug): the pattern is a literal backslash followed by
\* one or more letters s; every such run becomes one hyphen.
RECURSIVE SubBackslashS(_, _)
SubBackslashS(s, i) ==
    IF i > Len(s) THEN ""
    ELSE IF Ch(s, i) = "\\" /\ i < Len(s) /\ Ch(s, i + 1) = "s"
         THEN LET RECURSIVE RunEnd(_)
                  RunEnd(j) == IF j < Len(s) /\ Ch(s, j + 1) = "s"
                               THEN RunEnd(j + 1) ELSE j
              IN  "-" \o SubBackslashS(s, RunEnd(i + 1) + 1)
         ELSE Ch(s, i) \o SubBackslashS(s, i + 1)

\* replacements.get(slug, slug) at scrape_usatoday.py:85-91
SlugReplacements(s) ==
    CASE s = "miami-fl" -> "miami-fl"
      [] s = "miami-oh" -> "miami-oh"
      [] s = "ole-miss" -> "mississippi"
      [] s = "army-west-point" -> "army"
      [] OTHER -> s

normalize_school_slug(n) ==
    LET lowered  == StripChars(ToLower(n), " ")
        anded    == MapText(lowered, LAMBDA c : IF c = "&" THEN "and" ELSE c)
        kept     == MapText(anded, SlugKeep)
        hyphened == StripChars(SubBackslashS(kept, 1), "-")
    IN  SlugReplacements(hyphened)

\* Display names as the salary table prints them, in several spellings.
SchoolNameInputs ==
    { w1 \o sep \o w2 :
        w1 \in {"Ohio", "OHIO", "Ole", "Army West", "Miami", "Texas A&M", "N.C."},
        sep \in {" ", "  ", "-"},
        w2 \in {"State", "Miss", "Point", "(FL)", "St."} }
    \cup {"", "Army", " Army ", "mississippi", "ohio-state", "a\\ssb"}

SlugInit ==
    /\ pc = "start"
    /\ name \in SchoolNameInputs
    /\ slug = ""
    /\ Idle({"slug"})

NormalizeSchoolSlug ==
    /\ pc = "start"
    /\ slug' = normalize_school_slug(name)
    /\ pc' = "done"
    /\ UNCHANGED name
    /\ Frame({"slug"})

(***************************************************************************)
(* Claims on the school slug                                               *)
(***************************************************************************)
\* C10: normalize_school_slug turns each run of white space into '-', so
\* 'Ohio State' gives 'ohio-state', 'Ole Miss' gives 'mississippi' and
\* 'Army West Point' gives 'army'; names that differ only in letter case or
\* in the white space between words give the same slug; and the function
\* returns its own output unchanged.
C10_SlugOfDisplayName ==
    pc = "done" =>
       /\ name = "Ohio State" => slug = "ohio-state"
       /\ name = "Ole Miss" => slug = "mississippi"
       /\ name = "Army West Point" => slug = "army"
       /\ name = "Ohio  State" => slug = normalize_school_slug("Ohio State")
       /\ name = "OHIO State" => slug = normalize_school_slug("Ohio State")
       /\ normalize_school_slug(slug) = slug

(***************************************************************************)
(* Money parsing: scrape_usatoday.parse_number, state_salary.parse_money,  *)
(* scrape_salaries.parse_money, media_enrichment.MONEY_PATTERN with        *)
(* normalize_money.  A result is <<>> (None) or <<n>>.                     *)
(***************************************************************************)
\* Number of leading characters of s, from position p on, that are in chars.
RECURSIVE RunLen(_, _, _)
RunLen(s, p, chars) ==
    IF p <= Len(s) /\ InChars(Ch(s, p), chars) THEN 1 + RunLen(s, p + 1, chars) ELSE 0

\* int() of a string of decimal digits ('' counts 0).
RECURSIVE DigitsValue(_)
DigitsValue(s) ==
    IF s = "" THEN 0
    ELSE 10 * DigitsValue(Sub(s, 1, Len(s) - 1))
         + (CHOOSE d \in 0..9 : Ch(Digits, d + 1) = Ch(s, Len(s)))

\* int(float(cleaned)), None on ValueError. cleaned holds digits, dots,
\* hyphens and (scrape_salaries) backslashes: float() takes one optional
\* sign, then digits with at most one dot and at least one digit; int()
\* truncates toward zero.
IntOfFloat(cleaned) ==
    LET neg  == cleaned # "" /\ Ch(cleaned, 1) = "-"
        body == IF neg THEN Sub(cleaned, 2, Len(cleaned)) ELSE cleaned
        n    == RunLen(body, 1, Digits)
        rest == Sub(body, n + 1, Len(body))
        m    == IF rest # "" /\ Ch(rest, 1) = "." THEN RunLen(rest, 2, Digits) ELSE 0
        ok   == /\ \/ rest = ""
                   \/ Ch(rest, 1) = "." /\ Len(rest) = 1 + m
                /\ n + m >= 1
        int  == DigitsValue(Sub(body, 1, n))
    IN  IF ok THEN <<IF neg THEN 0 - int ELSE int>> ELSE <<>>

\* re.sub(<class>, "", text) for a negated character class: only the
\* characters of keep stay.
Cleaned(text, keep) == MapText(text, LAMBDA c : IF InChars(c, keep) THEN c ELSE "")

\* scrape_usatoday.parse_number
parse_number(text) ==
    IF text = "" \/ text = "-" THEN <<>>
    ELSE LET cleaned == Cleaned(text, Digits \o ".-")
         IN  IF cleaned = "" THEN <<>> ELSE IntOfFloat(cleaned)

\* state_salary.parse_money: the class is [^0-9.\-]
parse_money_state(v) ==
    IF v = None THEN <<>>
    ELSE LET cleaned == Cleaned(v, Digits \o ".-")
         IN  IF cleaned = "" THEN <<>> ELSE IntOfFloat(cleaned)

\* scrape_salaries.parse_money: the class is written r"[^0-9.\\-]", which
\* also keeps the backslash
parse_money_scrape(v) ==
    IF v = None THEN <<>>
    ELSE LET cleaned == Cleaned(v, Digits \o ".\\-")
         IN  IF cleaned = "" THEN <<>> ELSE IntOfFloat(cleaned)

\* media_enrichment.normalize_money: int(float(amount_text without commas)
\* times the unit). The product is computed exactly in decimal; the
\* modelled inputs are those on which binary floating point gives the same
\* integer.
normalize_money(amount_text, unit) ==
    LET txt   == Cleaned(amount_text, Digits \o ".")
        n     == RunLen(txt, 1, Digits)
        frac  == Sub(txt, n + 2, Len(txt))
        scale == LET RECURSIVE pow(_)
                     pow(k) == IF k = 0 THEN 1 ELSE 10 * pow(k - 1)
                 IN  pow(Len(frac))
        mult  == CASE ToLower(unit) \in {"million", "m"} -> 1000000
                   [] ToLower(unit) \in {"thousand", "k"} -> 1000
                   [] OTHER -> 1
    IN  <<((DigitsValue(Sub(txt, 1, n)) * scale + DigitsValue(frac)) * mult)
             \div scale>>

\* One attempt of MONEY_PATTERN at position i of text:
\*   \$?\s*(\d{1,3}(?:,\d{3})+|\d+(?:\.\d+)?)\s*(million|m|thousand|k)?
\* with re.IGNORECASE. The result is <<>> or <<[g1, g2, start, end]>>.
\* number[p2] matches the number from position p2 on, and unit[<<p2, p3>>]
\* the rest from the end p3 of the number on.
MoneyMatchAt(text, i) ==
    LET unit[q \in Nat \X Nat] ==
            LET p4 == q[2] + RunLen(text, q[2], " ")
                at(w) == ToLower(Sub(text, p4, p4 + Len(w) - 1)) = w
                u == CASE at("million") -> "million"
                       [] at("m") -> "m"
                       [] at("thousand") -> "thousand"
                       [] at("k") -> "k"
                       [] OTHER -> ""
            IN  <<[g1 |-> Sub(text, q[1], q[2] - 1), g2 |-> u,
                   start |-> i, end |-> p4 + Len(u)]>>
        \* (?:,\d{3})+ from position p: the number of groups matched
        RECURSIVE groups(_)
        groups(p) ==
            IF Ch(text, p) = "," /\ RunLen(text, p + 1, Digits) >= 3
            THEN 1 + groups(p + 4) ELSE 0
        number[p2 \in Nat] ==
            LET nd == RunLen(text, p2, Digits)
                \* \d{1,3} is greedy and backtracks: 3, then 2, then 1 digit
                lead == IF nd >= 3 /\ groups(p2 + 3) > 0 THEN 3
                        ELSE IF nd >= 2 /\ groups(p2 + 2) > 0 THEN 2
                        ELSE IF nd >= 1 /\ groups(p2 + 1) > 0 THEN 1 ELSE 0
                fracLen == IF Ch(text, p2 + nd) = "."
                           THEN RunLen(text, p2 + nd + 1, Digits) ELSE 0
            IN  IF nd = 0 THEN <<>>
                ELSE IF lead > 0 THEN unit[<<p2, p2 + lead + 4 * groups(p2 + lead)>>]
                ELSE IF fracLen > 0 THEN unit[<<p2, p2 + nd + 1 + fracLen>>]
                ELSE unit[<<p2, p2 + nd>>]
        p1 == IF Ch(text, i) = "$" THEN i + 1 ELSE i
    IN  number[p1 + RunLen(text, p1, " ")]

\* The first match of MONEY_PATTERN in text, as finditer yields it at
\* media_enrichment.py:187, converted at :188; <<>> when nothing matches.
media_money(text) ==
    LET RECURSIVE search(_)
        search(i) == IF i > Len(text) \/ MoneyMatchAt(text, i) # <<>> THEN i
                     ELSE search(i + 1)
        convert[m \in {MoneyMatchAt(text, search(1))}] ==
            IF m = <<>> THEN <<>> ELSE normalize_money(m[1].g1, m[1].g2)
    IN  convert[MoneyMatchAt(text, search(1))]

MoneyParsers == {"parse_number", "parse_money_state", "parse_money_scrape", "media_money"}

\* Cell texts and snippets handed to the parsers.
MoneyInputs ==
    {"$1.2 million", "$750,000", "N/A", "-", "", "$1.5M", "$900k", "$-", ".",
     "TBD", "1,200,000", "$2 million", "n/a", "--", "unknown",
     "$3.25 million", "$500 thousand", "$0.5m", "$ 1,250,000 ", "Undisclosed"}

MoneyInit ==
    /\ pc = "start"
    /\ value \in MoneyInputs
    /\ amount = <<>>
    /\ Idle({"money"})

\* One of the four parsers is applied to the text.
ParseMoney ==
    /\ pc = "start"
    /\ \E p \in MoneyParsers \ DOMAIN amount :
          amount' = amount @@
             (p :> CASE p = "parse_number" -> parse_number(value)
                     [] p = "parse_money_state" -> parse_money_state(value)
                     [] p = "parse_money_scrape" -> parse_money_scrape(value)
                     [] p = "media_money" -> media_money(value))
    /\ UNCHANGED <<pc, value>>
    /\ Frame({"money"})

(***************************************************************************)
(* Claims on money parsing                                                 *)
(***************************************************************************)
\* C7: every money parser gives 1200000 for '$1.2 million', 750000 for
\* '$750,000', and null for 'N/A', '-', the empty string and every text
\* that holds no digit.
C7_MoneyParsedWithUnits ==
    \A p \in DOMAIN amount :
       /\ value = "$1.2 million" => amount[p] = <<1200000>>
       /\ value = "$750,000" => amount[p] = <<750000>>
       /\ Cleaned(value, Digits) = "" => amount[p] = <<>>

(***************************************************************************)
(* Malformed-name repair: scripts/fix_duplicates.py fix_malformed_name and *)
(* the inline clean-up of scrape_collegepressbox.scrape_team_staff         *)
(***************************************************************************)
\* str.split(): the maximal runs of non-blank characters.
Tokens(s) ==
    LET RECURSIVE wordLen(_)
        wordLen(p) == IF p <= Len(s) /\ Ch(s, p) # " " THEN 1 + wordLen(p + 1) ELSE 0
        tok[p \in Nat] ==
            IF p > Len(s) THEN <<>>
            ELSE IF Ch(s, p) = " " THEN tok[p + 1]
            ELSE <<Sub(s, p, p + wordLen(p) - 1)>> \o tok[p + wordLen(p)]
    IN  tok[1]

\* ' '.join(parts[from:])
RECURSIVE JoinFrom(_, _)
JoinFrom(parts, from) ==
    IF from > Len(parts) THEN ""
    ELSE IF from = Len(parts) THEN parts[from]
    ELSE parts[from] \o " " \o JoinFrom(parts, from + 1)

\* needle in hay
Contains(hay, needle) ==
    \E i \in 1..(Len(hay) + 1) : Sub(hay, i, i + Len(needle) - 1) = needle

\* s.lower() with the characters of `drop` removed
LowerWithout(s, drop) ==
    MapText(s, LAMBDA c : IF InChars(c, drop) THEN "" ELSE LowerChar(c))

\* A plausible slip: a lower length threshold.
FirstPartTooShortAt4(first_part) == Len(first_part) < 4

\* len(first_part) < 8 at fix_duplicates.py:59
FirstPartTooShort(first_part) == Len(first_part) < 8

\* fix_malformed_name once the early returns are passed: parts is
\* name.split(), with at least two tokens.
RepairFromParts(nm, parts) ==
    LET first_part == parts[1]
        rest == JoinFrom(parts, 2)
        last_name_normalized == LowerWithout(parts[Len(parts)], "-'")
        prefix(i) == LowerWithout(Sub(first_part, 1, i), "-'")
        suffix(i) == Sub(first_part, i + 1, Len(first_part))
        \* the split points the loop at :72-91 accepts
        matches == { i \in 3..(Len(first_part) - 2) :
                       /\ InChars(Ch(first_part, i + 1), UpperAZ)
                       /\ \/ Contains(last_name_normalized, prefix(i))
                          \/ Contains(prefix(i), last_name_normalized) }
        \* best_match: the longest prefix, the first of equal length
        pick[ms \in SUBSET (3..Len(first_part))] ==
            LET best == CHOOSE i \in ms : \A j \in ms :
                           \/ Len(prefix(j)) < Len(prefix(i))
                           \/ Len(prefix(j)) = Len(prefix(i)) /\ i <= j
            IN  IF ms = {} THEN nm
                ELSE IF \/ /\ InChars(Ch(suffix(best), 1), UpperAZ)
                           /\ Ch(suffix(best), 2) = "."
                           /\ Ch(suffix(best), 3) = " "
                        \/ Len(suffix(best)) <= 2
                     THEN nm
                     ELSE suffix(best) \o " " \o rest
    IN  IF FirstPartTooShort(first_part) THEN nm ELSE pick[matches]

fix_malformed_name(nm) ==
    IF nm = "" \/ ~Contains(nm, " ") THEN nm
    ELSE LET split[parts \in {Tokens(nm)}] ==
                 IF Len(parts) < 2 THEN nm ELSE RepairFromParts(nm, parts)
         IN  split[Tokens(nm)]

\* scrape_team_staff, scrape_collegepressbox.py:153-164: the first token is
\* dropped when its lower-cased text occurs in the rest without blanks and
\* hyphens.
scrape_clean_name(nm) ==
    IF nm = "" \/ ~Contains(nm, " ") THEN nm
    ELSE LET split[parts \in {Tokens(nm)}] ==
                 IF /\ Len(parts) >= 2
                    /\ Contains(
                          MapText(ToLower(JoinFrom(parts, 2)),
                                  LAMBDA c : IF InChars(c, " -") THEN "" ELSE c),
                          ToLower(parts[1]))
                 THEN JoinFrom(parts, 2) ELSE nm
         IN  split[Tokens(nm)]

\* First names as they are printed, and first tokens with a sort key glued on.
PlainFirstNames == {"John", "JohnPaul", "Dennis", "Christopher", "MarySue", "Al"}

GluedFirstTokens ==
    {"Dottin-CarterDennis", "DanielArchie", "JohnsonJ.", "BrownJ.B.",
     "SmithBob", "O'NeilShaun", "LeeBob"}

LastNames == {"Dottin-Carter", "Johnson", "McDaniel", "Brown", "Smith", "O'Neil", "Lee"}

NameInputs ==
    { f \o " " \o m \o l :
        f \in PlainFirstNames \cup GluedFirstTokens, m \in {"", "Lee "}, l \in LastNames }
    \cup {"", "Cher", " Prince"}

RepairInit ==
    /\ pc = "start"
    /\ coach_name \in NameInputs
    /\ fixed = <<>>
    /\ Idle({"repair"})

\* fix_duplicates.clean_coach_names applies fix_malformed_name to a stored name.
FixMalformedName ==
    /\ pc = "start"
    /\ "fix_malformed_name" \notin DOMAIN fixed
    /\ fixed' = fixed @@ ("fix_malformed_name" :> fix_malformed_name(coach_name))
    /\ UNCHANGED <<pc, coach_name>>
    /\ Frame({"repair"})

\* scrape_team_staff cleans the text of a name cell.
ScrapeCleanName ==
    /\ pc = "start"
    /\ "scrape_team_staff" \notin DOMAIN fixed
    /\ fixed' = fixed @@ ("scrape_team_staff" :> scrape_clean_name(coach_name))
    /\ UNCHANGED <<pc, coach_name>>
    /\ Frame({"repair"})

RepairNext == FixMalformedName \/ ScrapeCleanName

(***************************************************************************)
(* Claims on name repair                                                   *)
(***************************************************************************)
\* The remainder is a one-letter initial: 'J.' alone or 'J.' before a blank.
BareInitial(r) ==
    /\ InChars(Ch(r, 1), UpperAZ)
    /\ Ch(r, 2) = "."
    /\ Len(r) = 2 \/ Ch(r, 3) = " "

\* The sort-key prefix matches the last token: one contains the other once
\* both are lower-cased and stripped of hyphens and apostrophes.
PrefixMatchesLast(prefix, last) ==
    \/ Contains(LowerWithout(last, "-'"), LowerWithout(prefix, "-'"))
    \/ Contains(LowerWithout(prefix, "-'"), LowerWithout(last, "-'"))

\* C8: fix_malformed_name turns 'Dottin-CarterDennis Dottin-Carter' into
\* 'Dennis Dottin-Carter'; whenever it changes a name, the result is the
\* remainder of the first token after a prefix, a blank and the rest of the
\* name, the first token has at least 8 characters, the prefix matches the
\* last token, and the remainder starts with an uppercase letter, has more
\* than 2 characters and is not a bare initial.
C8_RepairOnlyGluedSortKey ==
    "fix_malformed_name" \in DOMAIN fixed =>
       LET out == fixed["fix_malformed_name"]
           parts == Tokens(coach_name)
       IN  /\ coach_name = "Dottin-CarterDennis Dottin-Carter"
                => out = "Dennis Dottin-Carter"
           /\ out # coach_name =>
                /\ Len(parts) >= 2
                /\ Len(parts[1]) >= 8
                /\ \E i \in 1..(Len(parts[1]) - 1) :
                      LET remainder == Sub(parts[1], i + 1, Len(parts[1])) IN
                      /\ out = remainder \o " " \o JoinFrom(parts, 2)
                      /\ PrefixMatchesLast(Sub(parts[1], 1, i), parts[Len(parts)])
                      /\ InChars(Ch(remainder, 1), UpperAZ)
                      /\ Len(remainder) > 2
                      /\ ~BareInitial(remainder)

C8_Witness ==
    /\ coach_name = "Dottin-CarterDennis Dottin-Carter"
    /\ "fix_malformed_name" \in DOMAIN fixed
    /\ fixed["fix_malformed_name"] = "Dennis Dottin-Carter"

\* A well-formed name: an ordinary first name, an optional middle name and a
\* last name.
WellFormedName(nm) ==
    \E f \in PlainFirstNames, m \in {"", "Lee "}, l \in LastNames : nm = f \o " " \o m \o l

\* C9: fix_malformed_name and the clean-up of scrape_team_staff both return
\* every well-formed name unchanged, 'John Johnson' and 'JohnPaul Johnson'
\* included.
C9_WellFormedNameUnchanged ==
    \A f \in DOMAIN fixed : WellFormedName(coach_name) => fixed[f] = coach_name

(***************************************************************************)
(* Coach matcher: scripts/scrape_salaries.py best_coach_match              *)
(***************************************************************************)
MaxCoaches == 2

\* Characters in code-point order, for Python's comparison of str.
CodeOrder == " '-." \o Digits \o UpperAZ \o "\\" \o LowerAZ

\* a < b for Python str
RECURSIVE StrLess(_, _)
StrLess(a, b) ==
    LET rank(c) == CHOOSE i \in 1..Len(CodeOrder) : Ch(CodeOrder, i) = c IN
    IF b = "" THEN FALSE
    ELSE IF a = "" THEN TRUE
    ELSE IF Ch(a, 1) = Ch(b, 1) THEN StrLess(Tail(a), Tail(b))
    ELSE rank(Ch(a, 1)) < rank(Ch(b, 1))

\* re.sub(r"[^a-zA-Z\\s]", " ", name): in the raw string the class holds the
\* letters and the backslash; every other character becomes a blank.
normalize_name(nm) ==
    JoinFrom(SelectSeq(Tokens(ToLower(MapText(nm,
                 LAMBDA c : IF InChars(c, LowerAZ \o UpperAZ \o "\\") THEN c ELSE " "))),
                       LAMBDA t : t \notin {"jr", "sr", "ii", "iii", "iv"}), 1)

\* sum of the sizes of SequenceMatcher(None, a, b).get_matching_blocks():
\* the longest common block, the earliest in a and then in b among the
\* longest, and recursively the pieces to its left and to its right.
RECURSIVE MatchingSize(_, _)
MatchingSize(a, b) ==
    LET RECURSIVE run(_, _)
        run(i, j) == IF i <= Len(a) /\ j <= Len(b) /\ Ch(a, i) = Ch(b, j)
                     THEN 1 + run(i + 1, j + 1) ELSE 0
        pieces[m \in Nat \X Nat \X Nat] ==
            m[3] + MatchingSize(Sub(a, 1, m[1] - 1), Sub(b, 1, m[2] - 1))
                 + MatchingSize(Sub(a, m[1] + m[3], Len(a)), Sub(b, m[2] + m[3], Len(b)))
        \* find_longest_match over the common blocks bs
        longest[bs \in SUBSET (Nat \X Nat \X Nat)] ==
            LET k == CHOOSE k \in { m[3] : m \in bs } : \A m \in bs : m[3] <= k
                i == CHOOSE i \in { m[1] : m \in { m \in bs : m[3] = k } } :
                        \A m \in bs : m[3] = k => i <= m[1]
                j == CHOOSE j \in { m[2] : m \in { m \in bs : m[3] = k /\ m[1] = i } } :
                        \A m \in bs : (m[3] = k /\ m[1] = i) => j <= m[2]
            IN  IF bs = {} THEN 0 ELSE pieces[<<i, j, k>>]
    IN  longest[{ m \in { <<i, j, run(i, j)>> : i \in 1..Len(a), j \in 1..Len(b) } : m[3] > 0 }]

\* name_score(a, b) = 2.0 * M / T as the pair <<M, T>>; for T < 50 two
\* ratios are equal as floats exactly when they are equal as fractions.
name_score(a, b) == <<MatchingSize(a, b), Len(a) + Len(b)>>

ScoreGreater(s, t) == s[1] * t[2] > t[1] * s[2]

\* A plausible slip: a threshold of 0.80.
MeetsMinScoreAt80(s) == 200 * s[1] >= 80 * s[2]

\* min_score, in hundredths
min_score == 86

\* best[0] >= min_score
MeetsMinScore(s) == 200 * s[1] >= min_score * s[2]

best_coach_match(table, school_id, query, roster_year) ==
    LET target == normalize_name(query)
        candidates == SelectSeq([i \in 1..Len(table) |-> i],
                          LAMBDA i : table[i].school_id = school_id /\ table[i].year = roster_year)
        exact == { candidates[n] : n \in { n \in 1..Len(candidates) :
                                      normalize_name(table[candidates[n]].name) = target } }
        \* sort key (is_head_coach, name), reverse=True, stable
        keyLess(i, j) == \/ table[i].is_head_coach < table[j].is_head_coach
                         \/ /\ table[i].is_head_coach = table[j].is_head_coach
                            /\ StrLess(table[i].name, table[j].name)
        score[i \in 1..Len(table)] == name_score(target, normalize_name(table[i].name))
        RECURSIVE loop(_, _)
        loop(n, best) ==
            IF n > Len(candidates) THEN best
            ELSE loop(n + 1, IF best = <<>> \/ ScoreGreater(score[candidates[n]], score[best[1]])
                             THEN <<candidates[n]>> ELSE best)
        fuzzy[best \in {<<>>} \cup { <<i>> : i \in 1..Len(table) }] ==
            IF best # <<>> /\ MeetsMinScore(score[best[1]]) THEN best ELSE <<>>
    IN  IF target = "" THEN <<>>
        ELSE IF candidates = <<>> THEN <<>>
        ELSE IF exact # {}
             THEN << CHOOSE i \in exact : \A j \in exact :
                        keyLess(j, i) \/ (~keyLess(i, j) /\ i <= j) >>
             ELSE fuzzy[loop(1, <<>>)]

CoachRows ==
    [ name : {"Jon Smith", "Jon Smith Jr.", "Jonathan Smith", "John Smith", "Jon Smyth"},
      school_id : {1}, year : {2024, 2025}, is_head_coach : {0, 1} ]

MatchInit ==
    /\ pc = "start"
    /\ coaches = <<>>
    /\ person_name = ""
    /\ match = <<>>
    /\ Idle({"roster", "match"})

\* A scraper stores a staff row.
InsertCoach ==
    /\ pc = "start"
    /\ Len(coaches) < MaxCoaches
    /\ \E r \in CoachRows : coaches' = Append(coaches, r)
    /\ UNCHANGED <<pc, person_name, match>>
    /\ Frame({"roster", "match"})

\* import_salaries looks a payroll name up in the 2025 roster of school 1.
BestCoachMatch ==
    /\ pc = "start"
    /\ \E q \in {"Jon Smith", "JON SMITH III", "Jo Smith", "Jr.", "Dan Lanning"} :
          /\ person_name' = q
          /\ match' = best_coach_match(coaches, 1, q, 2025)
    /\ pc' = "done"
    /\ UNCHANGED coaches
    /\ Frame({"roster", "match"})

MatchNext == InsertCoach \/ BestCoachMatch

(***************************************************************************)
(* Claims on the coach matcher                                             *)
(***************************************************************************)
\* Rows of the (school 1, 2025) pool.
InPool == { i \in 1..Len(coaches) : coaches[i].school_id = 1 /\ coaches[i].year = 2025 }

ExactInPool == { i \in InPool : normalize_name(coaches[i].name) = normalize_name(person_name) }

ScoreOf(i) == name_score(normalize_name(person_name), normalize_name(coaches[i].name))

\* C4: with a non-empty normalized query, if the pool holds rows whose
\* normalized name equals the normalized query, one of them is returned and
\* it is a head-coach row when one of them is; otherwise the row returned
\* has the highest score of the pool and is returned exactly when that score
\* is at least 0.86; None is returned otherwise, and for an empty normalized
\* query or an empty pool.  Pool 'Jon Smith', 'Jonathan Smith' with query
\* 'Jon Smith' returns 'Jon Smith'.
C4_ExactThenBestAboveThreshold ==
    pc = "done" =>
       /\ (normalize_name(person_name) = "" \/ InPool = {}) => match = <<>>
       /\ (normalize_name(person_name) # "" /\ ExactInPool # {}) =>
             /\ match # <<>>
             /\ match[1] \in ExactInPool
             /\ (\E i \in ExactInPool : coaches[i].is_head_coach = 1)
                   => coaches[match[1]].is_head_coach = 1
       /\ (normalize_name(person_name) # "" /\ InPool # {} /\ ExactInPool = {}) =>
             LET top == CHOOSE i \in InPool : \A j \in InPool : ~ScoreGreater(ScoreOf(j), ScoreOf(i))
             IN  IF 100 * 2 * ScoreOf(top)[1] >= 86 * ScoreOf(top)[2]
                 THEN match # <<>> /\ match[1] \in InPool
                      /\ ~ScoreGreater(ScoreOf(top), ScoreOf(match[1]))
                 ELSE match = <<>>
       /\ ( /\ person_name = "Jon Smith"
            /\ { coaches[i].name : i \in InPool } = {"Jon Smith", "Jonathan Smith"} )
             => match # <<>> /\ coaches[match[1]].name = "Jon Smith"

C4_Witness ==
    /\ pc = "done"
    /\ person_name = "Jon Smith"
    /\ Len(coaches) = 2
    /\ coaches[1].name = "Jonathan Smith" /\ coaches[1].year = 2025
    /\ coaches[2].name = "Jon Smith" /\ coaches[2].year = 2025
    /\ match = <<2>>

\* C11: when no row of the pool is an exact match and two or more rows share
\* the highest score, best_coach_match returns None.
C11_TiedTopScoreGivesNoMatch ==
    ( /\ pc = "done"
      /\ normalize_name(person_name) # ""
      /\ ExactInPool = {}
      /\ \E i, j \in InPool :
            /\ i # j
            /\ ~ScoreGreater(ScoreOf(i), ScoreOf(j)) /\ ~ScoreGreater(ScoreOf(j), ScoreOf(i))
            /\ \A k \in InPool : ~ScoreGreater(ScoreOf(k), ScoreOf(i)) )
       => match = <<>>

(***************************************************************************)
(* Salary store: upsert_usatoday_db and upsert_salary write it, the        *)
(* queries of list_coaches and snapshot_from_sqlite read it                *)
(***************************************************************************)
MaxSalaries == 2

MaxSchools == 3

MaxRoster == 4

\* SQL NULL in an amount column
NullPay == 0

Dates == {"2025-01-15", "2025-06-30"}

\* A plausible slip: the existing row is looked up without its source.
SalaryKeyIdsAnySource(sal, coach_id, year, source) ==
    { i \in 1..Len(sal) : sal[i].coach_id = coach_id /\ sal[i].year = year }

\* SELECT id FROM salaries WHERE coach_id = ? AND year = ? AND source = ?
SalaryKeyIds(sal, coach_id, year, source) ==
    { i \in 1..Len(sal) :
        sal[i].coach_id = coach_id /\ sal[i].year = year /\ sal[i].source = source }

\* The rows LIMIT 1 may return: 0 stands for no row.
LimitOne(ids) == IF ids = {} THEN {0} ELSE ids

\* UPDATE ... WHERE id = found, or INSERT when nothing was found.
Upserted(sal, found, r) ==
    IF found = 0 THEN Append(sal, r)
    ELSE [sal EXCEPT ![found] = [@ EXCEPT !.total_pay = r.total_pay,
                                          !.school_pay = r.school_pay,
                                          !.source_date = r.source_date]]

\* A plausible slip: payroll rows rank ahead of every other source.
SalaryFirstBySource(sal, i, j) ==
    \/ sal[i].source = "state_payroll" /\ sal[j].source # "state_payroll"
    \/ /\ (sal[i].source = "state_payroll") = (sal[j].source = "state_payroll")
       /\ i > j

\* Row i comes before row j under
\* ORDER BY year DESC, COALESCE(source_date, '') DESC, id DESC
SalaryFirst(sal, i, j) ==
    \/ sal[i].year > sal[j].year
    \/ /\ sal[i].year = sal[j].year
       /\ StrLess(Coalesce(sal[j].source_date), Coalesce(sal[i].source_date))
    \/ /\ sal[i].year = sal[j].year
       /\ Coalesce(sal[j].source_date) = Coalesce(sal[i].source_date)
       /\ i > j

\* The correlated subquery of the LEFT JOIN on salaries for coach row c:
\* list_coaches has s2.year = c.year in it, snapshot_from_sqlite has not.
ShownSalary(sal, c, year, year_scoped) ==
    LET own == { i \in 1..Len(sal) :
                   sal[i].coach_id = c /\ (year_scoped => sal[i].year = year) }
    IN  IF own = {} THEN <<>>
        ELSE << CHOOSE i \in own : \A j \in own \ {i} : SalaryFirst(sal, i, j) >>

\* db/migrate.py normalize_school_name: the slug load_salary_data stores
normalize_school_name(nm) ==
    LET low == StripChars(ToLower(nm), " ")
    IN  CASE low = "miami (fl)" -> "miami"
          [] low = "miami (oh)" -> "miami-oh"
          [] low = "ole miss" -> "mississippi"
          [] low = "north carolina state" -> "nc-state"
          [] low = "army west point" -> "army"
          [] OTHER -> MapText(low, LAMBDA c : IF c = " " THEN "-" ELSE c)

\* Table schools as load_salary_data leaves it for the display names
\* "Ohio State" and "Oregon".
SeedSchools ==
    << [name |-> "Ohio State", slug |-> "ohio-state"], [name |-> "Oregon", slug |-> "oregon"] >>

SeedCoaches ==
    << [name |-> "Jon Smith", school_id |-> 2, year |-> 2025, is_head_coach |-> 0],
       [name |-> "Dan Lanning", school_id |-> 2, year |-> 2025, is_head_coach |-> 1],
       [name |-> "Dan Lanning", school_id |-> 2, year |-> 2024, is_head_coach |-> 1] >>

\* Rows import_enriched_salaries leaves for coach row 2, at most one per
\* (year, source).
SeedSalaries ==
    LET imported ==
            [ coach_id : {2}, year : {2024, 2025}, total_pay : {300}, school_pay : {280},
              source : {"state_payroll"}, source_date : Dates ]
            \cup [ coach_id : {2}, year : {2024, 2025}, total_pay : {250}, school_pay : {NullPay},
                   source : {"media_report"}, source_date : Dates \cup {None} ]
    IN  {<<>>} \cup { <<r>> : r \in imported }
        \cup { rq \in { <<r, q>> : r \in imported, q \in imported } :
                 <<rq[1].year, rq[1].source>> # <<rq[2].year, rq[2].source>> }

StoreInit ==
    /\ pc = "start"
    /\ schools = SeedSchools
    /\ coaches = SeedCoaches
    /\ salaries \in SeedSalaries
    /\ op = [fn |-> "none"]
    /\ Idle({"roster", "store"})

\* upsert_usatoday_db(coaches=[row], year=2025) on the day `today`.
UpsertUsaToday ==
    /\ pc = "start"
    /\ \E school_name \in {"Oregon", "Ohio State"} :
       \E school_slug \in {normalize_school_slug(school_name)} :
       \E row \in [ coach : {"Jon Smith", "Dan Lanning", ""}, school : {school_name},
                     totalPay : {100, 200} ],
          today \in Dates, name_unique \in BOOLEAN :
          LET year == 2025
              found == { i \in 1..Len(schools) : schools[i].slug = school_slug }
              \* INSERT OR IGNORE: ignored when a constraint of the schema,
              \* which the sources do not show, rejects the display name
              ignored == /\ found = {}
                         /\ name_unique
                         /\ \E i \in 1..Len(schools) : schools[i].name = row.school
              schools1 == IF found = {} /\ ~ignored
                          THEN Append(schools, [name |-> row.school, slug |-> school_slug])
                          ELSE schools
              school_id == IF found = {} THEN Len(schools) + 1
                           ELSE CHOOSE i \in found : \A j \in found : i <= j
              roster == { i \in 1..Len(coaches) :
                            /\ coaches[i].school_id = school_id
                            /\ coaches[i].name = row.coach
                            /\ coaches[i].year = year }
              coaches1 == IF roster = {}
                          THEN Append(coaches, [name |-> row.coach, school_id |-> school_id,
                                                year |-> year, is_head_coach |-> 1])
                          ELSE coaches
              \* ORDER BY is_head_coach DESC, id DESC LIMIT 1
              coach_id == IF roster = {} THEN Len(coaches) + 1
                          ELSE CHOOSE i \in roster : \A j \in roster :
                                 \/ coaches[j].is_head_coach < coaches[i].is_head_coach
                                 \/ /\ coaches[j].is_head_coach = coaches[i].is_head_coach
                                    /\ j <= i
          IN  IF row.coach = "" \/ ignored
              THEN /\ op' = [fn |-> "upsert_usatoday_db", wrote |-> FALSE, args |-> row,
                           school |-> row.school]
                   /\ UNCHANGED <<schools, coaches, salaries>>
              ELSE \E payload \in {[coach_id |-> coach_id, year |-> year,
                                     total_pay |-> row.totalPay,
                                     school_pay |-> row.totalPay - 10,
                                     source |-> "usa_today", source_date |-> today]} :
                   /\ Len(schools1) <= MaxSchools
                   /\ Len(coaches1) <= MaxRoster
                   /\ \E id \in LimitOne(SalaryKeyIds(salaries, payload.coach_id, year, "usa_today")) :
                         /\ id = 0 => Len(salaries) < MaxSalaries
                         /\ salaries' = Upserted(salaries, id, payload)
                   /\ schools' = schools1
                   /\ coaches' = coaches1
                   /\ op' = [fn |-> "upsert_usatoday_db", wrote |-> TRUE, args |-> payload,
                            school |-> row.school]
    /\ UNCHANGED pc
    /\ Frame({"roster", "store"})

\* upsert_salary(conn, coach_id, salary, dry_run) as import_salaries calls it:
\* coach_id is a row of the 2025 roster and salary.year is that year.
UpsertSalary ==
    /\ pc = "start"
    /\ \E coach_id \in { i \in 1..Len(coaches) : coaches[i].year = 2025 },
          total_pay \in {100, 200}, source_date \in Dates, dry_run \in BOOLEAN :
          LET salary == [coach_id |-> coach_id, year |-> 2025, total_pay |-> total_pay,
                         school_pay |-> total_pay - 10, source |-> "osu_hr",
                         source_date |-> source_date]
          IN  /\ \E id \in LimitOne(SalaryKeyIds(salaries, coach_id, salary.year, salary.source)) :
                    IF dry_run THEN UNCHANGED salaries
                    ELSE /\ id = 0 => Len(salaries) < MaxSalaries
                         /\ salaries' = Upserted(salaries, id, salary)
              /\ op' = [fn |-> "upsert_salary", wrote |-> ~dry_run, args |-> salary]
    /\ UNCHANGED <<pc, schools, coaches>>
    /\ Frame({"roster", "store"})

\* GET /coaches?year=y: the salary joined to each coach row of season y.
ListCoaches ==
    /\ pc = "start"
    /\ \E y \in {2024, 2025} :
          op' = [fn |-> "list_coaches", wrote |-> FALSE, args |-> y,
                 result |-> [c \in { i \in 1..Len(coaches) : coaches[i].year = y }
                               |-> ShownSalary(salaries, c, coaches[c].year, TRUE)]]
    /\ UNCHANGED <<pc, schools, coaches, salaries>>
    /\ Frame({"roster", "store"})

\* snapshot_from_sqlite(db_path, year=y): the salary joined to each head coach.
SnapshotFromSqlite ==
    /\ pc = "start"
    /\ \E y \in {2024, 2025} :
          op' = [fn |-> "snapshot_from_sqlite", wrote |-> FALSE, args |-> y,
                 result |-> [c \in { i \in 1..Len(coaches) :
                                       coaches[i].is_head_coach = 1 /\ coaches[i].year = y }
                               |-> ShownSalary(salaries, c, coaches[c].year, FALSE)]]
    /\ UNCHANGED <<pc, schools, coaches, salaries>>
    /\ Frame({"roster", "store"})

StoreNext == UpsertUsaToday \/ UpsertSalary \/ ListCoaches \/ SnapshotFromSqlite

(***************************************************************************)
(* Claims on the salary store                                              *)
(***************************************************************************)
SalaryKey(r) == <<r.coach_id, r.year, r.source>>

\* What a step that ran an upsert for the row op'.args does to the table.
UpsertEffect ==
    (op'.fn \in {"upsert_usatoday_db", "upsert_salary"} /\ op'.wrote) =>
       LET same == { i \in 1..Len(salaries) : SalaryKey(salaries[i]) = SalaryKey(op'.args) }
       IN  IF same # {}
           THEN /\ Len(salaries') = Len(salaries)
                /\ \A i \in 1..Len(salaries) :
                      IF i \in same
                      THEN salaries'[i] = op'.args
                      ELSE salaries'[i] = salaries[i]
           ELSE salaries' = Append(salaries, op'.args)

\* C2: the salaries table never holds two rows with the same (coach_id,
\* year, source); an upsert for a triple that is stored rewrites that row
\* with the new amounts and source_date and inserts nothing; an upsert for a
\* triple that is not stored, such as the same coach and year under another
\* source, appends one row and leaves every stored row as it was.
C2_OneRowPerCoachYearSource ==
    /\ [](\A i, j \in 1..Len(salaries) :
            SalaryKey(salaries[i]) = SalaryKey(salaries[j]) => i = j)
    /\ [][UpsertEffect]_vars

\* usa_today upserted twice with different amounts for coach 2 in 2025, then
\* osu_hr for the same coach and year: two rows, the first with the second
\* amount.
C2_Witness ==
    /\ Len(salaries) = 2
    /\ SalaryKey(salaries[1]) = <<2, 2025, "usa_today">>
    /\ salaries[1].total_pay = 200
    /\ SalaryKey(salaries[2]) = <<2, 2025, "osu_hr">>
    /\ op.fn = "upsert_usatoday_db" /\ op.wrote /\ op.args.total_pay = 200
    /\ op.args.coach_id = 2

C19_UsaTodayReusesLoadedSchool ==
    (op.fn = "upsert_usatoday_db" /\ (op.wrote \/ op.args.coach # "")) =>
        LET loaded == { i \in 1..Len(SeedSchools) :
                          /\ SeedSchools[i].name = op.school
                          /\ SeedSchools[i].slug = normalize_school_name(op.school) }
        IN  loaded # {} =>
               /\ op.wrote
               /\ coaches[op.args.coach_id].school_id \in loaded
               /\ \A i \in 1..Len(schools) : schools[i].name = op.school => i \in loaded

(***************************************************************************)
(* scripts/import_enriched_salaries.py: state payroll matches and media    *)
(* reports are imported into the salaries table                            *)
(***************************************************************************)
\* re.sub(r"[^a-z0-9]+", "-", name.lower()).strip("-")
import_school_slug(nm) ==
    LET low == ToLower(nm)
        kept(i) == InChars(Ch(low, i), LowerAZ \o Digits)
        out[i \in 1..(Len(low) + 1)] ==
            IF i > Len(low) THEN ""
            ELSE IF kept(i) THEN Ch(low, i) \o out[i + 1]
            ELSE IF i > 1 /\ ~kept(i - 1) THEN out[i + 1]
            ELSE "-" \o out[i + 1]
    IN  StripChars(out[1], "-")

\* resolve_school_id: the display name first, then the slug; 0 for None
resolve_school_id(school_name) ==
    LET byName == { i \in 1..Len(schools) : ToLower(schools[i].name) = ToLower(school_name) }
        bySlug == { i \in 1..Len(schools) : schools[i].slug = import_school_slug(school_name) }
        first(ids) == CHOOSE i \in ids : \A j \in ids : i <= j
    IN  IF school_name = "" THEN 0
        ELSE IF byName # {} THEN first(byName)
        ELSE IF bySlug # {} THEN first(bySlug)
        ELSE 0

\* resolve_coach_id: every coach row of the school is a candidate, the first
\* of the strictly highest score wins, and a score below 0.9 gives None (0).
resolve_coach_id(school_id, nm) ==
    LET coach_norm == normalize_name(nm)
        score[i \in 1..Len(coaches)] == name_score(coach_norm, normalize_name(coaches[i].name))
        RECURSIVE loop(_, _, _)
        loop(i, best_id, best_score) ==
            IF i > Len(coaches) THEN <<best_id, best_score>>
            ELSE IF coaches[i].school_id = school_id /\ ScoreGreater(score[i], best_score)
                 THEN loop(i + 1, i, score[i])
                 ELSE loop(i + 1, best_id, best_score)
        decide[best \in Nat \X (Nat \X Nat)] ==
            IF best[1] = 0 \/ 20 * best[2][1] < 9 * best[2][2] THEN 0 ELSE best[1]
    IN  decide[loop(1, 0, <<0, 1>>)]

\* One pass of a loop of main over an entry that passed its filters: resolve
\* the school and the coach, skip when the row exists, insert otherwise.
\* st holds the table and the ids inserted so far.
ImportEntry(st, r, coach, school) ==
    LET place[coach_id \in Nat] ==
            IF coach_id = 0 \/ SalaryKeyIds(st.salaries, coach_id, r.year, r.source) # {}
            THEN st
            ELSE [salaries |-> Append(st.salaries, [r EXCEPT !.coach_id = coach_id]),
                  inserted |-> st.inserted \cup {Len(st.salaries) + 1}]
        school_id[id \in Nat] == IF id = 0 THEN 0 ELSE resolve_coach_id(id, coach)
    IN  place[school_id[resolve_school_id(school)]]

is_coordinator_position(position) == Contains(ToLower(position), "coordinator")

\* main() with the flags keep_media_when_state and include_non_coordinators,
\* --media-year 2025, on the day `today`.
import_main(sal, state, media, keep_media_when_state, include_non_coordinators, today) ==
    LET key(e) == <<StripChars(e.coach, " "), StripChars(e.school, " ")>>
        usable(e) == key(e)[1] # "" /\ key(e)[2] # ""
        \* state_by_key: a dict, so the last match of a key stays, at the
        \* place of the first
        keys == { key(state[i]) : i \in { i \in 1..Len(state) : usable(state[i]) } }
        firstAt(k) == CHOOSE i \in 1..Len(state) :
                         key(state[i]) = k /\ \A j \in 1..(i - 1) : key(state[j]) # k
        lastOf(k) == state[CHOOSE i \in 1..Len(state) :
                         key(state[i]) = k /\ \A j \in (i + 1)..Len(state) : key(state[j]) # k]
        RECURSIVE stateLoop(_, _)
        stateLoop(i, st) ==
            IF i > Len(state) THEN st
            ELSE IF ~usable(state[i]) \/ firstAt(key(state[i])) # i THEN stateLoop(i + 1, st)
            ELSE LET m == lastOf(key(state[i])) IN
                 IF ~include_non_coordinators /\ ~is_coordinator_position(m.position)
                 THEN stateLoop(i + 1, st)
                 ELSE stateLoop(i + 1,
                        ImportEntry(st, [coach_id |-> 0, year |-> m.salaryYear,
                                         total_pay |-> m.totalComp, school_pay |-> m.baseSalary,
                                         source |-> "state_payroll", source_date |-> today],
                                    key(m)[1], key(m)[2]))
        RECURSIVE mediaLoop(_, _)
        mediaLoop(i, st) ==
            IF i > Len(media) THEN st
            ELSE IF \/ ~usable(media[i])
                    \/ ~include_non_coordinators /\ ~is_coordinator_position(media[i].position)
                    \/ ~keep_media_when_state /\ key(media[i]) \in keys
                 THEN mediaLoop(i + 1, st)
                 ELSE mediaLoop(i + 1,
                        ImportEntry(st, [coach_id |-> 0, year |-> 2025,
                                         total_pay |-> media[i].salary, school_pay |-> NullPay,
                                         source |-> "media_report",
                                         source_date |-> media[i].lastUpdated],
                                    key(media[i])[1], key(media[i])[2]))
    IN  mediaLoop(1, stateLoop(1, [salaries |-> sal, inserted |-> {}]))

\* data/state_salary_matches.json
StateFiles ==
    {<<>>} \cup { <<m>> : m \in [ coach : {"Jon Smith", "Jon Smith Jr. "}, school : {"Oregon"},
                                   position : {"Offensive Coordinator", "Analyst"},
                                   salaryYear : {2024, 2025}, totalComp : {300, 350},
                                   baseSalary : {280} ] }

\* data/media_salaries.json
MediaFiles ==
    {<<>>} \cup { <<m>> : m \in [ coach : {"Jon Smith", "Jon Smith Jr. "}, school : {"Oregon"},
                                   position : {"Offensive Coordinator"}, salary : {250},
                                   lastUpdated : {None, "2025-01-15"} ] }

ImportInit ==
    /\ pc = "start"
    /\ schools = SeedSchools
    /\ coaches = SeedCoaches
    /\ salaries \in {<<>>,
                      <<[coach_id |-> 1, year |-> 2025, total_pay |-> 300, school_pay |-> 280,
                         source |-> "state_payroll", source_date |-> "2025-01-15"]>>}
    /\ op = [fn |-> "none"]
    /\ Idle({"roster", "store"})

\* One run of import_enriched_salaries.
ImportEnriched ==
    /\ pc = "start"
    /\ \E state \in StateFiles, media \in MediaFiles, keep_media_when_state \in BOOLEAN,
          include_non_coordinators \in BOOLEAN :
       \E run \in {import_main(salaries, state, media, keep_media_when_state,
                               include_non_coordinators, "2025-06-30")} :
          /\ salaries' = run.salaries
          /\ op' = [fn |-> "import_enriched_salaries", wrote |-> TRUE,
                    args |-> [state |-> state, media |-> media,
                              keep_media_when_state |-> keep_media_when_state,
                              include_non_coordinators |-> include_non_coordinators],
                    result |-> run.inserted]
    /\ pc' = "done"
    /\ UNCHANGED <<schools, coaches>>
    /\ Frame({"roster", "store"})

(***************************************************************************)
(* Claims on the import of enriched salaries                               *)
(***************************************************************************)
\* C6: after a run without --keep-media-when-state, no media_report row that
\* the run inserted shares its (coach_id, year) with a state_payroll row.
C6_NoMediaWhereStatePayroll ==
    (pc = "done" /\ ~op.args.keep_media_when_state) =>
       \A i \in op.result :
          salaries[i].source = "media_report" =>
             ~\E j \in 1..Len(salaries) :
                 /\ salaries[j].source = "state_payroll"
                 /\ salaries[j].coach_id = salaries[i].coach_id
                 /\ salaries[j].year = salaries[i].year

\* C18: a run given a state match whose (coach, year, state_payroll) triple
\* is already stored leaves exactly one row for the triple, and that row
\* carries the amount of the match.
C18_RerunUpdatesStoredAmount ==
    [][ (pc = "start" /\ pc' = "done") =>
          \A n \in 1..Len(op'.args.state) :
             LET m == op'.args.state[n]
                 school_id == resolve_school_id(StripChars(m.school, " "))
                 coach_id == IF school_id = 0 THEN 0
                             ELSE resolve_coach_id(school_id, StripChars(m.coach, " "))
                 stored(sal) == SalaryKeyIds(sal, coach_id, m.salaryYear, "state_payroll")
             IN  ( /\ op'.args.include_non_coordinators \/ is_coordinator_position(m.position)
                   /\ coach_id # 0
                   /\ stored(salaries) # {} )
                 => /\ Cardinality(stored(salaries')) = 1
                    /\ \A id \in stored(salaries') : salaries'[id].total_pay = m.totalComp
      ]_vars

\* C29: every salaries row a run inserted belongs to a coach row of the
\* salary's year (salaries.year = coaches.year for its coach_id), at the
\* school the entry resolved to, so the read-time join on that equality
\* shows it.
C29_SalaryYearIsCoachSeason ==
    pc = "done" =>
       \A i \in op.result :
          /\ salaries[i].coach_id \in 1..Len(coaches)
          /\ coaches[salaries[i].coach_id].year = salaries[i].year
          /\ LET at(entries) == \E n \in 1..Len(entries) :
                                   coaches[salaries[i].coach_id].school_id
                                      = resolve_school_id(StripChars(entries[n].school, " "))
             IN  at(op.args.state) \/ at(op.args.media)

(***************************************************************************)
(* Change detector: api/main.py get_changes                                *)
(***************************************************************************)
\* Rows of one season that load_year returns.
MaxYearRows == 2

\* a < b for tuples of str of one length
RECURSIVE TupleLess(_, _)
TupleLess(a, b) ==
    IF a = <<>> THEN FALSE
    ELSE IF a[1] = b[1] THEN TupleLess(Tail(a), Tail(b))
    ELSE StrLess(a[1], b[1])

\* sorted(recs, key=...) for a sequence of <<key, rec>> pairs: stable.
SortedByKey(keyed) ==
    LET ins[n \in 0..Len(keyed)] ==
            IF n = 0 THEN <<>>
            ELSE LET before == { i \in 1..(n - 1) : ~TupleLess(keyed[n][1], ins[n - 1][i][1]) }
                 IN  SubSeq(ins[n - 1], 1, Cardinality(before)) \o <<keyed[n]>>
                     \o SubSeq(ins[n - 1], Cardinality(before) + 1, n - 1)
    IN  [i \in 1..Len(keyed) |-> ins[Len(keyed)][i][2]]

ChangeKey(r) == <<r.school_slug, r.name>>

\* position or ""
PositionText(r) == Coalesce(r.position)

\* A plausible slip: the score is the head-coach flag alone.
ScoreHigherByFlagOnly(cand, cur) == cand.is_head_coach > cur.is_head_coach

\* score > cur_score for score = (is_head_coach, len(position or ""))
ScoreHigher(cand, cur) ==
    \/ cand.is_head_coach > cur.is_head_coach
    \/ /\ cand.is_head_coach = cur.is_head_coach
       /\ Len(PositionText(cand)) > Len(PositionText(cur))

\* pick_best over the rows of one year: a dict in insertion order; a row
\* replaces the record of its key when it scores strictly higher by
\* (is_head_coach, len(position)).
RECURSIVE ReduceYear(_)
ReduceYear(rs) ==
    IF rs = <<>> THEN <<>>
    ELSE LET existing == ReduceYear(SubSeq(rs, 1, Len(rs) - 1))
             cand == rs[Len(rs)]
             at == { i \in 1..Len(existing) : ChangeKey(existing[i]) = ChangeKey(cand) }
             better(i) == ScoreHigher(cand, existing[i])
         IN  IF at = {} THEN Append(existing, cand)
             ELSE [i \in 1..Len(existing) |->
                     IF i \in at /\ better(i) THEN cand ELSE existing[i]]

\* A plausible slip: only the head-coach flag is compared.
PromotedByFlagOnly(from_rec, to_rec) == from_rec.is_head_coach # to_rec.is_head_coach

\* The condition of a promotion at main.py:597
Promoted(from_rec, to_rec) ==
    \/ PositionText(from_rec) # PositionText(to_rec)
    \/ from_rec.is_head_coach # to_rec.is_head_coach

get_changes(from_list, to_list) ==
    LET run[maps \in {<<ReduceYear(from_list), ReduceYear(to_list)>>}] ==
          LET from_map == maps[1]
              to_map == maps[2]
              keys(m) == { ChangeKey(m[i]) : i \in 1..Len(m) }
              rec(m, k) == m[CHOOSE i \in 1..Len(m) : ChangeKey(m[i]) = k]
              bySchoolName(recs) == SortedByKey([i \in 1..Len(recs) |->
                                        <<<<recs[i].school, recs[i].name>>, recs[i]>>])
              promoted == SelectSeq(to_map, LAMBDA t :
                              /\ ChangeKey(t) \in keys(from_map)
                              /\ Promoted(rec(from_map, ChangeKey(t)), t))
              \* from_by_name / to_by_name: the schools of each name
              at(m, n) == { m[i].school_slug : i \in { i \in 1..Len(m) : m[i].name = n } }
              firstOf(i) == \A j \in 1..(i - 1) : from_map[j].name # from_map[i].name
              single(S) == CHOOSE x \in S : TRUE
              moved == SelectSeq([i \in 1..Len(from_map) |-> i], LAMBDA i :
                          /\ firstOf(i)
                          /\ at(to_map, from_map[i].name) # {}
                          /\ at(from_map, from_map[i].name) # at(to_map, from_map[i].name)
                          /\ Cardinality(at(from_map, from_map[i].name)) = 1
                          /\ Cardinality(at(to_map, from_map[i].name)) = 1)
          IN  [ new_hires |-> bySchoolName(SelectSeq(to_map,
                                  LAMBDA t : ChangeKey(t) \notin keys(from_map))),
                departures |-> bySchoolName(SelectSeq(from_map,
                                  LAMBDA f : ChangeKey(f) \notin keys(to_map))),
                promotions |-> bySchoolName([i \in 1..Len(promoted) |->
                                  [ school |-> promoted[i].school,
                                    school_slug |-> promoted[i].school_slug,
                                    name |-> promoted[i].name,
                                    from_position |->
                                        rec(from_map, ChangeKey(promoted[i])).position,
                                    to_position |-> promoted[i].position,
                                    from_is_head_coach |->
                                        rec(from_map, ChangeKey(promoted[i])).is_head_coach,
                                    to_is_head_coach |-> promoted[i].is_head_coach ]]),
                moves |-> SortedByKey([n \in 1..Len(moved) |->
                            LET nm == from_map[moved[n]].name
                                mv == [ name |-> nm,
                                        from_school_slug |-> single(at(from_map, nm)),
                                        to_school_slug |-> single(at(to_map, nm)) ]
                            IN  <<<<mv.name, mv.from_school_slug, mv.to_school_slug>>, mv>>]) ]
    IN  run[<<ReduceYear(from_list), ReduceYear(to_list)>>]

\* Rows of the join of coaches and schools for one season.
YearRows ==
    { [school_slug |-> k[1], school |-> k[2], name |-> k[3],
       position |-> p[1], is_head_coach |-> p[2]] :
        k \in { <<"school-x", "School X", "Alice">>, <<"school-x", "School X", "Bob">>,
                <<"school-y", "School Y", "Alice">> },
        p \in { <<"Head Coach", 1>>, <<"OC", 0>>, <<None, 0>>, <<"", 0>> } }
    \cup
    { [school_slug |-> k[1], school |-> k[2], name |-> k[3],
       position |-> "OC", is_head_coach |-> 0] :
        k \in { <<"school-y", "School Y", "Bob">>, <<"school-z", "School Z", "Alice">> } }

ChangesInit ==
    /\ pc = "load"
    /\ from_rows = <<>>
    /\ to_rows = <<>>
    /\ changes = <<>>
    /\ Idle({"changes"})

\* load_year(from_year) returns one more row.
LoadFromYear ==
    /\ pc = "load"
    /\ Len(from_rows) < MaxYearRows
    /\ \E r \in YearRows : from_rows' = Append(from_rows, r)
    /\ UNCHANGED <<pc, to_rows, changes>>
    /\ Frame({"changes"})

\* load_year(to_year) returns one more row.
LoadToYear ==
    /\ pc = "load"
    /\ Len(to_rows) < MaxYearRows
    /\ \E r \in YearRows : to_rows' = Append(to_rows, r)
    /\ UNCHANGED <<pc, from_rows, changes>>
    /\ Frame({"changes"})

\* GET /changes?from=..&to=..
GetChanges ==
    /\ pc = "load"
    /\ changes' = get_changes(from_rows, to_rows)
    /\ pc' = "done"
    /\ UNCHANGED <<from_rows, to_rows>>
    /\ Frame({"changes"})

ChangesNext == LoadFromYear \/ LoadToYear \/ GetChanges

(***************************************************************************)
(* Claims on the change detector                                           *)
(***************************************************************************)
KeysOf(recs) == { ChangeKey(recs[i]) : i \in 1..Len(recs) }

\* The record that the reduction of a year keeps for key k.
KeptFor(rs, k) ==
    ReduceYear(rs)[CHOOSE i \in 1..Len(ReduceYear(rs)) : ChangeKey(ReduceYear(rs)[i]) = k]

\* C5: with each year reduced to one record per (school_slug, name), a key
\* is in new_hires iff it is only in 'to', in departures iff it is only in
\* 'from', in promotions iff it is in both and the position text or the
\* head-coach flag of its two records differs; a key in both years with the
\* same position and flag is in no list, no list names a key twice, and
\* from {(School X, Alice): Head Coach} to {(School X, Bob): Head Coach} the
\* response has the new hire Bob, the departure Alice and no promotion.
C5_EachKeyInItsClass ==
    pc = "done" =>
       /\ \A k \in KeysOf(from_rows) \cup KeysOf(to_rows) :
             /\ k \in KeysOf(changes.new_hires)
                   <=> (k \in KeysOf(to_rows) /\ k \notin KeysOf(from_rows))
             /\ k \in KeysOf(changes.departures)
                   <=> (k \in KeysOf(from_rows) /\ k \notin KeysOf(to_rows))
             /\ k \in KeysOf(changes.promotions)
                   <=> /\ k \in KeysOf(from_rows) /\ k \in KeysOf(to_rows)
                       /\ \/ Coalesce(KeptFor(from_rows, k).position)
                               # Coalesce(KeptFor(to_rows, k).position)
                          \/ KeptFor(from_rows, k).is_head_coach
                               # KeptFor(to_rows, k).is_head_coach
       /\ \A list \in {changes.new_hires, changes.departures, changes.promotions} :
             /\ Len(list) = Cardinality(KeysOf(list))
             /\ KeysOf(list) \subseteq KeysOf(from_rows) \cup KeysOf(to_rows)
       /\ ( /\ Len(from_rows) = 1 /\ Len(to_rows) = 1
            /\ ChangeKey(from_rows[1]) = <<"school-x", "Alice">>
            /\ ChangeKey(to_rows[1]) = <<"school-x", "Bob">>
            /\ from_rows[1].is_head_coach = 1 /\ to_rows[1].is_head_coach = 1 )
             => /\ KeysOf(changes.new_hires) = {<<"school-x", "Bob">>}
                /\ KeysOf(changes.departures) = {<<"school-x", "Alice">>}
                /\ changes.promotions = <<>>

C5_Witness ==
    /\ pc = "done"
    /\ Len(from_rows) = 1 /\ Len(to_rows) = 1
    /\ ChangeKey(from_rows[1]) = <<"school-x", "Alice">> /\ from_rows[1].is_head_coach = 1
    /\ ChangeKey(to_rows[1]) = <<"school-x", "Bob">> /\ to_rows[1].is_head_coach = 1
    /\ Len(changes.new_hires) = 1 /\ changes.new_hires[1].name = "Bob"
    /\ Len(changes.departures) = 1 /\ changes.departures[1].name = "Alice"
    /\ changes.promotions = <<>>

\* recs is in ascending order of key(rec).
IsSortedBy(recs, key(_)) ==
    \A i, j \in 1..Len(recs) : i < j => ~TupleLess(key(recs[j]), key(recs[i]))

\* C13: the four event lists of the response are sorted by (school, person
\* name); the school of a move is its from-school or its to-school.
C13_EventListsSortedBySchoolThenName ==
    pc = "done" =>
        /\ IsSortedBy(changes.new_hires, LAMBDA r : <<r.school, r.name>>)
        /\ IsSortedBy(changes.departures, LAMBDA r : <<r.school, r.name>>)
        /\ IsSortedBy(changes.promotions, LAMBDA r : <<r.school, r.name>>)
        /\ \/ IsSortedBy(changes.moves, LAMBDA r : <<r.from_school_slug, r.name>>)
           \/ IsSortedBy(changes.moves, LAMBDA r : <<r.to_school_slug, r.name>>)

\* The rows of key k that no other row of k beats: head coach first, then
\* the longest position text.
BestRows(rs, k) ==
    LET ofKey == { rs[i] : i \in { j \in 1..Len(rs) : ChangeKey(rs[j]) = k } }
    IN  { b \in ofKey : \A r \in ofKey :
            /\ r.is_head_coach <= b.is_head_coach
            /\ r.is_head_coach = b.is_head_coach
                  => Len(Coalesce(r.position)) <= Len(Coalesce(b.position)) }

\* The records of key k in a list of the response.
ListedFor(list, k) == { list[i] : i \in { j \in 1..Len(list) : ChangeKey(list[j]) = k } }

\* C14: for every (school_slug, name) the response is the one that a single
\* best row of each year gives (head coach first, then longest position
\* text): the new hire or the departure is that row, and the promotion is
\* decided by and reports the two best rows.
C14_DiffUsesOneBestRowPerKey ==
    pc = "done" =>
        \A k \in KeysOf(from_rows) \cup KeysOf(to_rows) :
            \E bf \in IF k \in KeysOf(from_rows) THEN BestRows(from_rows, k) ELSE {<<>>},
               bt \in IF k \in KeysOf(to_rows) THEN BestRows(to_rows, k) ELSE {<<>>} :
                /\ ListedFor(changes.new_hires, k) = IF bf = <<>> THEN {bt} ELSE {}
                /\ ListedFor(changes.departures, k) = IF bt = <<>> THEN {bf} ELSE {}
                /\ ListedFor(changes.promotions, k) =
                      IF bf = <<>> \/ bt = <<>> THEN {}
                      ELSE IF Coalesce(bf.position) = Coalesce(bt.position)
                              /\ bf.is_head_coach = bt.is_head_coach THEN {}
                      ELSE {[ school |-> bt.school, school_slug |-> k[1], name |-> k[2],
                              from_position |-> bf.position, to_position |-> bt.position,
                              from_is_head_coach |-> bf.is_head_coach,
                              to_is_head_coach |-> bt.is_head_coach ]}

\* The second row of (school-x, Alice) replaces the first in both years, and
\* the promotion reports the two rows kept.
C14_Witness ==
    /\ pc = "done"
    /\ Len(from_rows) = 2 /\ Len(to_rows) = 2
    /\ \A i \in 1..2 : ChangeKey(from_rows[i]) = <<"school-x", "Alice">>
                         /\ ChangeKey(to_rows[i]) = <<"school-x", "Alice">>
    /\ from_rows[1].position = None /\ from_rows[2].position = "OC"
    /\ to_rows[1].position = "OC" /\ to_rows[2].position = "Head Coach"
    /\ Len(changes.promotions) = 1
    /\ changes.promotions[1].from_position = "OC"
    /\ changes.promotions[1].to_position = "Head Coach"

(***************************************************************************)
(* Snapshot differ: scripts/track_changes.py detect_changes                *)
(***************************************************************************)
\* Coaches in one snapshot file.
MaxSnapshot == 2

POWER_FOUR == {"SEC", "Big 10", "Big 12", "ACC"}

\* re.sub(r"\s+", " ", value).strip().lower(), "" for None and ""
normalize_text(v) ==
    IF v = None \/ v = "" THEN "" ELSE ToLower(JoinFrom(Tokens(v), 1))

\* index[key] = val on a dict kept as a sequence of <<key, val>> in insertion
\* order: a key already present keeps its place and takes the new value.
IndexPut(index, key, val) ==
    IF \E i \in 1..Len(index) : index[i][1] = key
    THEN [i \in 1..Len(index) |-> IF index[i][1] = key THEN <<key, val>> ELSE index[i]]
    ELSE Append(index, <<key, val>>)

\* index.get(key): <<>> for None, else <<val>>
IndexGet(index, key) ==
    IF \E i \in 1..Len(index) : index[i][1] = key
    THEN <<(CHOOSE e \in { index[i] : i \in 1..Len(index) } : e[1] = key)[2]>>
    ELSE <<>>

RECURSIVE build_school_index(_)
build_school_index(cs) ==
    IF cs = <<>> THEN <<>>
    ELSE LET index == build_school_index(SubSeq(cs, 1, Len(cs) - 1))
             coach == cs[Len(cs)]
         IN  IF coach.school = None \/ coach.school = "" THEN index
             ELSE IndexPut(index, normalize_text(coach.school), coach)

RECURSIVE build_coach_index(_)
build_coach_index(cs) ==
    IF cs = <<>> THEN <<>>
    ELSE LET index == build_coach_index(SubSeq(cs, 1, Len(cs) - 1))
             coach == cs[Len(cs)]
         IN  IF coach.coach = None \/ coach.coach = "" \/ coach.school = None \/ coach.school = ""
             THEN index
             ELSE IndexPut(index, normalize_text(coach.coach), coach)

is_power_four(conference) == conference \in POWER_FOUR

detect_changes(previous_coaches, current_coaches, run_timestamp) ==
    LET prev_by_school == build_school_index(previous_coaches)
        curr_by_school == build_school_index(current_coaches)
        prev_by_coach == build_coach_index(previous_coaches)
        curr_by_coach == build_coach_index(current_coaches)
        hire(curr, previousCoach) ==
            [timestamp |-> run_timestamp, changeType |-> "new_hire", coach |-> curr.coach,
             school |-> curr.school, conference |-> curr.conference,
             previousCoach |-> previousCoach, alert |-> is_power_four(curr.conference)]
        departure(prev, replacementCoach) ==
            [timestamp |-> run_timestamp, changeType |-> "departure", coach |-> prev.coach,
             school |-> prev.school, conference |-> prev.conference,
             replacementCoach |-> replacementCoach, alert |-> is_power_four(prev.conference)]
        bySchool[n \in 0..Len(curr_by_school)] ==
            IF n = 0 THEN <<>>
            ELSE LET curr == curr_by_school[n][2]
                     prev == IndexGet(prev_by_school, curr_by_school[n][1])
                 IN  IF prev = <<>> THEN Append(bySchool[n - 1], hire(curr, None))
                     ELSE IF normalize_text(prev[1].coach) # normalize_text(curr.coach)
                     THEN bySchool[n - 1]
                          \o <<hire(curr, prev[1].coach), departure(prev[1], curr.coach)>>
                     ELSE bySchool[n - 1]
        vacated[n \in 0..Len(prev_by_school)] ==
            IF n = 0 THEN <<>>
            ELSE IF IndexGet(curr_by_school, prev_by_school[n][1]) = <<>>
            THEN Append(vacated[n - 1], departure(prev_by_school[n][2], None))
            ELSE vacated[n - 1]
        moved[n \in 0..Len(prev_by_coach)] ==
            IF n = 0 THEN <<>>
            ELSE LET prev == prev_by_coach[n][2]
                     curr == IndexGet(curr_by_coach, prev_by_coach[n][1])
                 IN  IF curr = <<>> THEN moved[n - 1]
                     ELSE IF normalize_text(prev.school) # normalize_text(curr[1].school)
                     THEN Append(moved[n - 1],
                            [timestamp |-> run_timestamp, changeType |-> "position_change",
                             coach |-> curr[1].coach, previousSchool |-> prev.school,
                             newSchool |-> curr[1].school,
                             previousConference |-> prev.conference,
                             newConference |-> curr[1].conference,
                             alert |-> is_power_four(curr[1].conference)
                                         \/ is_power_four(prev.conference)])
                     ELSE moved[n - 1]
    IN  bySchool[Len(curr_by_school)] \o vacated[Len(prev_by_school)]
        \o moved[Len(prev_by_coach)]

\* Entries of the "coaches" list of a snapshot file.
SnapshotCoaches ==
    { [coach |-> c, school |-> s[1], conference |-> s[2]] :
        c \in {"Alice", "ALICE ", "Bob", None},
        s \in { <<"School X", "SEC">>, <<"School Y", "MAC">> } }

TrackInit ==
    /\ pc = "load"
    /\ prev_coaches = <<>>
    /\ curr_coaches = <<>>
    /\ events = <<>>
    /\ Idle({"track"})

\* load_snapshot(last_path) holds one more coach.
LoadPrevious ==
    /\ pc = "load"
    /\ Len(prev_coaches) < MaxSnapshot
    /\ \E c \in SnapshotCoaches : prev_coaches' = Append(prev_coaches, c)
    /\ UNCHANGED <<pc, curr_coaches, events>>
    /\ Frame({"track"})

\* load_snapshot(data_path) holds one more coach.
LoadCurrent ==
    /\ pc = "load"
    /\ Len(curr_coaches) < MaxSnapshot
    /\ \E c \in SnapshotCoaches : curr_coaches' = Append(curr_coaches, c)
    /\ UNCHANGED <<pc, prev_coaches, events>>
    /\ Frame({"track"})

DetectChanges ==
    /\ pc = "load"
    /\ events' = detect_changes(prev_coaches, curr_coaches, "2025-01-15T06:00:00")
    /\ pc' = "done"
    /\ UNCHANGED <<prev_coaches, curr_coaches>>
    /\ Frame({"track"})

TrackNext == LoadPrevious \/ LoadCurrent \/ DetectChanges

(***************************************************************************)
(* Claims about cross-school moves                                         *)
(***************************************************************************)
\* Schools a name is attached to in a snapshot.
SchoolsOfName(cs, nm) ==
    { normalize_text(cs[i].school) :
        i \in { j \in 1..Len(cs) : normalize_text(cs[j].coach) = normalize_text(nm) } }

\* C12: detect_changes emits a position_change for a name only when the name
\* is attached to exactly one school in the previous snapshot and to exactly
\* one, different, school in the current snapshot.
C12_MoveOnlyBetweenSingleSchools ==
    pc = "done" =>
        \A n \in 1..Len(events) :
            events[n].changeType = "position_change" =>
                /\ Cardinality(SchoolsOfName(prev_coaches, events[n].coach)) = 1
                /\ Cardinality(SchoolsOfName(curr_coaches, events[n].coach)) = 1
                /\ SchoolsOfName(prev_coaches, events[n].coach)
                       # SchoolsOfName(curr_coaches, events[n].coach)

(***************************************************************************)
(* Salary extraction from text: scripts/media_enrichment.py extract_salary *)
(***************************************************************************)
SALARY_CONTEXT ==
    {"salary", "contract", "deal", "extension", "per year", "annually", "annual",
     "annual rate", "base"}

NEGATIVE_SALARY_CONTEXT == {"signing bonus", "cap hit", "rookie contract"}

\* pattern.search(text) for an alternation of literals under re.IGNORECASE
ContextSearch(pattern, text) ==
    LET found[low \in {ToLower(text)}] == \E w \in pattern : Contains(low, w)
    IN  found[ToLower(text)]

\* MONEY_PATTERN.finditer(text): the matches from left to right, each search
\* resuming where the previous match ended.
MoneyMatches(text) ==
    LET run[all \in {{ j \in 1..Len(text) : MoneyMatchAt(text, j) # <<>> }}] ==
            LET first(i) == CHOOSE j \in all : j >= i /\ \A k \in all : k >= i => j <= k
                scan[i \in Nat] ==
                    IF \A j \in all : j < i THEN <<>>
                    ELSE LET at[m \in {MoneyMatchAt(text, first(i))}] == m \o scan[m[1].end]
                         IN  at[MoneyMatchAt(text, first(i))]
            IN  scan[1]
    IN  run[{ j \in 1..Len(text) : MoneyMatchAt(text, j) # <<>> }]

\* The score of the lower-cased window around a match.
ContextScore(context) ==
    LET score[c \in {context}] ==
            (IF \E w \in {"per year", "annually", "annual"} : Contains(c, w) THEN 3 ELSE 0)
            + (IF \E w \in {"salary", "annual rate", "base"} : Contains(c, w) THEN 2 ELSE 0)
            - (IF \E w \in {"buyout", "bonus", "signing"} : Contains(c, w) THEN 4 ELSE 0)
    IN  score[context]

\* text[max(match.start() - 50, 0):min(match.end() + 50, len(text))].lower()
ContextWindow(text, m) ==
    ToLower(Sub(text, IF m.start - 50 > 1 THEN m.start - 50 ELSE 1,
                      IF m.end + 49 < Len(text) THEN m.end + 49 ELSE Len(text)))

extract_salary(text, min_salary, max_salary) ==
    IF ~ContextSearch(SALARY_CONTEXT, text) THEN <<>>
    ELSE IF ContextSearch(NEGATIVE_SALARY_CONTEXT, text) THEN <<>>
    ELSE
      LET run[ms \in {MoneyMatches(text)}] ==
            LET RECURSIVE collect(_)
                collect(n) ==
                    IF n > Len(ms) THEN <<>>
                    ELSE LET at[a \in {normalize_money(ms[n].g1, ms[n].g2)[1]}] ==
                                 IF a = 0 \/ a < min_salary \/ a > max_salary
                                 THEN collect(n + 1)
                                 ELSE <<[amount |-> a,
                                         raw_text |-> StripChars(Sub(text, ms[n].start,
                                                                     ms[n].end - 1), " "),
                                         score |-> ContextScore(ContextWindow(text, ms[n]))]>>
                                      \o collect(n + 1)
                         IN  at[normalize_money(ms[n].g1, ms[n].g2)[1]]
                \* candidates.sort(key=(score, amount), reverse=True): stable
                above(a, b) == \/ a.score > b.score
                               \/ a.score = b.score /\ a.amount > b.amount
                best[candidates \in {collect(1)}] ==
                    IF candidates = <<>> THEN <<>>
                    ELSE LET first == CHOOSE c \in 1..Len(candidates) :
                                 /\ \A o \in 1..Len(candidates) :
                                        ~above(candidates[o], candidates[c])
                                 /\ \A o \in 1..(c - 1) : above(candidates[c], candidates[o])
                         IN  <<candidates[first].amount, candidates[first].raw_text>>
            IN  best[collect(1)]
      IN  run[MoneyMatches(text)]

\* Titles and snippets of the search results for one coach, joined.
CombinedTexts ==
    LET filler == "xxxxxxxxxxxxxxxxxxxxxxxxxxxxxxxxxxxxxxxxxxxxxxxxxxxx"
    IN  { "He will earn $750,000",
          "salary $750,000 plus a signing bonus",
          "salary of $750,000",
          "contract through 2027",
          "contract: $500,000 or $2 million",
          "deal: $2 million or $500,000",
          "Smith gets a $300,000 kicker per year",
          "base $400,000 " \o filler \o " $2 million buyout",
          "$2 million buyout " \o filler \o " base $400,000",
          "annual rate $600,000 " \o filler \o " $500,000 per year salary",
          "extension worth $1.5M",
          "salary $900k and 12 wins",
          "contract, $1,250,000 ",
          "Annual pay: $0.5m" }

\* --min-salary / --max-salary
SalaryRanges ==
    { <<100000, 5000000>>, <<600000, 5000000>>, <<100000, 1000000>>, <<1, 2000000000>> }

ExtractInit ==
    /\ pc = "start"
    /\ combined \in CombinedTexts
    /\ salary_range \in SalaryRanges
    /\ extracted = <<>>
    /\ Idle({"extract"})

ExtractSalary ==
    /\ pc = "start"
    /\ extracted' = extract_salary(combined, salary_range[1], salary_range[2])
    /\ pc' = "done"
    /\ UNCHANGED <<combined, salary_range>>
    /\ Frame({"extract"})

(***************************************************************************)
(* Claims about salary extraction                                          *)
(***************************************************************************)
\* The figures of a text with their amounts and context scores. A unit is a
\* word of its own: letters that only begin a longer word are not a unit.
Figures(text) ==
    LET ms == MoneyMatches(text)
        isUnit(m) == m.g2 # "" /\ ~InChars(Ch(text, m.end), UpperAZ \o LowerAZ)
    IN  { [amount |-> normalize_money(ms[n].g1, IF isUnit(ms[n]) THEN ms[n].g2 ELSE "")[1],
           score |-> ContextScore(ContextWindow(text, ms[n]))] : n \in 1..Len(ms) }

\* C15: extract_salary returns an amount exactly when the text has a salary
\* keyword, has no negative keyword and holds a figure within
\* [min_salary, max_salary]; the amount returned is that of the in-range
\* figure with the highest context score and, among those, the largest.
C15_BestInRangeFigureOrNone ==
    pc = "done" =>
        LET inRange == { f \in Figures(combined) :
                           salary_range[1] <= f.amount /\ f.amount <= salary_range[2] }
            best == { f \in inRange : \A g \in inRange :
                        \/ g.score < f.score
                        \/ g.score = f.score /\ g.amount <= f.amount }
        IN  IF /\ ContextSearch(SALARY_CONTEXT, combined)
               /\ ~ContextSearch(NEGATIVE_SALARY_CONTEXT, combined)
               /\ inRange # {}
            THEN extracted # <<>> /\ \E f \in best : extracted[1] = f.amount
            ELSE extracted = <<>>

(***************************************************************************)
(* School resolution: import_enriched_salaries.resolve_school_id and       *)
(* play_caller_pipeline.get_school_id                                      *)
(***************************************************************************)
\* get_school_id: WHERE name = ? first; then WHERE name LIKE '%team_name%',
\* which compares ASCII letters without case, taken when exactly one row
\* matches; 0 for None.
get_school_id(team_name) ==
    LET exact == { i \in DOMAIN schools : schools[i].name = team_name }
        like == { i \in DOMAIN schools :
                    Contains(ToLower(schools[i].name), ToLower(team_name)) }
    IN  IF exact # {} THEN CHOOSE i \in exact : \A j \in exact : i <= j
        ELSE IF Cardinality(like) = 1 THEN CHOOSE i \in like : TRUE
        ELSE 0

\* Team and school names handed to the two lookups.
TeamNames ==
    {"Ohio State", "ohio state", "OHIO STATE", "Ohio", "ohio-state", "Ohio  State", "Ohio St.",
     "Oregon", "oregon", "Oregon State", "Oregon Ducks", "Ore", "State", "O", "Miami",
     "Miami (OH)", "miami oh", "Michigan", "The Ohio State University"}

\* Contents of table schools.
SchoolTables ==
    { SeedSchools,
      Append(SeedSchools, [name |-> "Oregon State", slug |-> "oregon-state"]),
      Append(SeedSchools, [name |-> "Miami (OH)", slug |-> "miami-oh"]) }

ResolveInit ==
    /\ pc = "start"
    /\ schools \in SchoolTables
    /\ salaries = <<>>
    /\ op = <<>>
    /\ Idle({"store"})

ResolveSchoolId ==
    /\ \E school_name \in TeamNames :
          op' = [fn |-> "resolve_school_id", wrote |-> FALSE, args |-> <<school_name>>,
                 result |-> resolve_school_id(school_name)]
    /\ UNCHANGED <<pc, schools, salaries>>
    /\ Frame({"store"})

GetSchoolId ==
    /\ \E team_name \in TeamNames :
          op' = [fn |-> "get_school_id", wrote |-> FALSE, args |-> <<team_name>>,
                 result |-> get_school_id(team_name)]
    /\ UNCHANGED <<pc, schools, salaries>>
    /\ Frame({"store"})

ResolveNext == ResolveSchoolId \/ GetSchoolId

(***************************************************************************)
(* Claims about school resolution                                          *)
(***************************************************************************)
\* C16: both lookups return the first school whose slug is the normalized
\* slug of the input, else the first school whose name equals the input
\* without regard to case, else none.
C16_SchoolResolutionIsExact ==
    (op # <<>> /\ op.fn \in {"resolve_school_id", "get_school_id"}) =>
        LET input == op.args[1]
            bySlug == { i \in 1..Len(schools) : schools[i].slug = import_school_slug(input) }
            byName == { i \in 1..Len(schools) : ToLower(schools[i].name) = ToLower(input) }
        IN  op.result = IF bySlug # {} THEN CHOOSE i \in bySlug : \A j \in bySlug : i <= j
                        ELSE IF byName # {} THEN CHOOSE i \in byName : \A j \in byName : i <= j
                        ELSE 0

(***************************************************************************)
(* Batch operations on the store: scripts/fix_duplicates.py main,          *)
(* scripts/scrape_salaries.py run_scrape and                               *)
(* scripts/play_caller_pipeline.py run_pipeline.  Here a table is a        *)
(* function from row id to row, so that a deleted row leaves a hole.       *)
(***************************************************************************)
\* (keep_id, delete_id) of the schools to merge
SCHOOL_MERGES == << <<32, 252>>, <<10, 266>>, <<28, 231>> >>

\* merge_schools on the open connection db = [schools, coaches]; the count
\* returned is added to db.count.
merge_schools(db, keep_id, delete_id, dry_run) ==
    IF keep_id \notin DOMAIN db.schools \/ delete_id \notin DOMAIN db.schools THEN db
    ELSE LET count == Cardinality({ i \in DOMAIN db.coaches :
                                      db.coaches[i].school_id = delete_id })
         IN  IF dry_run THEN [db EXCEPT !.count = @ + count]
             ELSE [ schools |-> [ i \in DOMAIN db.schools \ {delete_id} |-> db.schools[i] ],
                    coaches |-> [ i \in DOMAIN db.coaches |->
                                    IF db.coaches[i].school_id = delete_id
                                    THEN [db.coaches[i] EXCEPT !.school_id = keep_id]
                                    ELSE db.coaches[i] ],
                    count |-> db.count + count ]

\* clean_coach_names: <<coaches, fixed, the (original, cleaned) pairs printed>>
clean_coach_names(co, dry_run) ==
    LET run[cleaned \in {{ <<i, fix_malformed_name(co[i].name)>> : i \in DOMAIN co }}] ==
            LET name_of(i) == (CHOOSE c \in cleaned : c[1] = i)[2]
                changed == { i \in DOMAIN co : name_of(i) # co[i].name }
            IN  << IF dry_run THEN co
                   ELSE [ i \in DOMAIN co |-> [co[i] EXCEPT !.name = name_of(i)] ],
                   Cardinality(changed),
                   { <<co[i].name, name_of(i)>> : i \in changed } >>
    IN  run[{ <<i, fix_malformed_name(co[i].name)>> : i \in DOMAIN co }]

\* The groups of remove_duplicate_coaches: GROUP BY name, school_id,
\* position HAVING COUNT(*) > 1, each as the set of its row ids.
DuplicateGroups(co) ==
    LET key(i) == <<co[i].name, co[i].school_id, co[i].position>>
    IN  { g \in { { j \in DOMAIN co : key(j) = key(i) } : i \in DOMAIN co } :
            Cardinality(g) > 1 }

\* remove_duplicate_coaches: <<coaches, removed, the ids printed as removed>>.
\* keep[g] is the id that GROUP_CONCAT(id) lists first for group g; SQL
\* leaves that order open.
remove_duplicate_coaches(co, dry_run, keep) ==
    LET delete_ids == UNION { g \ {keep[g]} : g \in DuplicateGroups(co) }
    IN  << IF dry_run THEN co ELSE [ i \in DOMAIN co \ delete_ids |-> co[i] ],
           Cardinality(delete_ids), delete_ids >>

\* run_scrape(db_path, None, None, active_only, dry_run) at the instant now;
\* scraped[id] are the SalaryRows that the parser of source id returns. The
\* result holds the tables and the calls made, in order.
run_scrape(db, scraped, dry_run, now) ==
    LET max(S) == CHOOSE x \in S : \A y \in S : y <= x
        effective_year == max({ db.coaches[i].year : i \in DOMAIN db.coaches })
        \* iter_active_sources: JOIN schools, active = 1, ORDER BY ss.id
        sources == SelectSeq([i \in 1..Len(db.salary_sources) |-> i], LAMBDA i :
                       /\ db.salary_sources[i].school_id \in DOMAIN db.schools
                       /\ db.salary_sources[i].active = 1)
        RECURSIVE eachRow(_, _, _)
        eachRow(src, n, st) ==
            IF n > Len(scraped[src]) THEN st
            ELSE LET salary == [scraped[src][n] EXCEPT !.year = effective_year]
                     coach == best_coach_match(db.coaches, db.salary_sources[src].school_id,
                                               salary.person_name, effective_year)
                     payload == [coach_id |-> coach[1], year |-> salary.year,
                                 total_pay |-> salary.total_pay,
                                 school_pay |-> salary.school_pay,
                                 source |-> salary.source, source_date |-> salary.source_date]
                     existing == SalaryKeyIds(st.salaries, coach[1], salary.year, salary.source)
                 IN  IF coach = <<>>
                     THEN eachRow(src, n + 1, [st EXCEPT !.steps = Append(@, "best_coach_match")])
                     ELSE eachRow(src, n + 1,
                            [st EXCEPT
                               !.steps = @ \o <<"best_coach_match", "upsert_salary">>,
                               !.salaries =
                                  IF dry_run THEN @
                                  ELSE Upserted(@, max(LimitOne(existing)), payload)])
        RECURSIVE run(_, _)
        run(k, st) ==
            IF k > Len(sources) THEN st
            ELSE LET after == eachRow(sources[k], 1, st)
                 IN  run(k + 1,
                         IF dry_run THEN after
                         ELSE [after EXCEPT !.salary_sources[sources[k]].last_scraped = now])
    IN  run(1, [salaries |-> db.salaries, salary_sources |-> db.salary_sources, steps |-> <<>>])

\* get_existing_primary: <<>> for None
get_existing_primary(callers, school_id, season) ==
    IF <<school_id, season>> \in DOMAIN callers THEN <<callers[<<school_id, season>>]>>
    ELSE <<>>

\* set_primary_caller on st = [play_callers, play_caller_changes]: the row of
\* (school_id, season) is inserted or overwritten and every mid-season
\* change that names a new caller is appended.
set_primary_caller(st, school_id, season, analysis) ==
    LET caller == analysis.primary_play_caller
        row == [primary_caller |-> caller.name, primary_title |-> caller.title,
                is_head_coach |-> caller.is_head_coach, confidence |-> analysis.confidence]
        named == SelectSeq(analysis.mid_season_changes, LAMBDA c : c.new_caller # "")
    IN  [ play_callers |->
              [ k \in DOMAIN st.play_callers \cup {<<school_id, season>>} |->
                  IF k = <<school_id, season>> THEN row ELSE st.play_callers[k] ],
          play_caller_changes |->
              st.play_caller_changes
              \o [ n \in 1..Len(named) |->
                     [school_id |-> school_id, season |-> season,
                      new_caller |-> named[n].new_caller, new_title |-> named[n].new_title,
                      confidence |-> analysis.confidence] ],
          result |-> [status |-> "updated", primary |-> caller.name,
                      changes_added |-> Len(analysis.mid_season_changes)] ]

\* detect_change without its look-up of an already recorded change: every
\* named mid-season change is appended.
detect_changeUnchecked(st, school_id, season, analysis) ==
    IF get_existing_primary(st.play_callers, school_id, season) = <<>>
    THEN [play_callers |-> st.play_callers, play_caller_changes |-> st.play_caller_changes,
          result |-> [status |-> "no_primary"]]
    ELSE LET ran == set_primary_caller(st, school_id, season, analysis)
         IN  [play_callers |-> st.play_callers,
              play_caller_changes |-> ran.play_caller_changes,
              result |-> [status |-> "changes_detected",
                          primary |-> st.play_callers[<<school_id, season>>].primary_caller,
                          new_changes_added |-> Len(ran.play_caller_changes)
                                                - Len(st.play_caller_changes)]]

\* detect_change on st = [play_callers, play_caller_changes]: the primary is
\* never written; a mid-season change is appended unless a row of the same
\* (school_id, season, new_caller) is already there.
detect_change(st, school_id, season, analysis) ==
    LET existing == get_existing_primary(st.play_callers, school_id, season)
        new_name == ToLower(StripChars(analysis.primary_play_caller.name, " "))
        changes_in == analysis.mid_season_changes
        recorded(tbl, c) == \E i \in 1..Len(tbl) :
                               /\ tbl[i].school_id = school_id /\ tbl[i].season = season
                               /\ tbl[i].new_caller = c.new_caller
        RECURSIVE log(_, _)
        log(n, tbl) ==
            IF n > Len(changes_in) THEN tbl
            ELSE IF changes_in[n].new_caller = "" \/ recorded(tbl, changes_in[n])
            THEN log(n + 1, tbl)
            ELSE log(n + 1, Append(tbl,
                     [school_id |-> school_id, season |-> season,
                      new_caller |-> changes_in[n].new_caller,
                      new_title |-> changes_in[n].new_title,
                      confidence |-> analysis.confidence]))
        with(result) == [play_callers |-> st.play_callers,
                         play_caller_changes |-> st.play_caller_changes, result |-> result]
    IN  IF existing = <<>>
        THEN with([status |-> "no_primary"])
        ELSE IF new_name = ToLower(StripChars(existing[1].primary_caller, " "))
                /\ changes_in = <<>>
        THEN with([status |-> "no_change", primary |-> existing[1].primary_caller])
        ELSE [ play_callers |-> st.play_callers,
               play_caller_changes |-> log(1, st.play_caller_changes),
               result |-> [status |-> "changes_detected",
                           primary |-> existing[1].primary_caller,
                           new_changes_added |->
                               Len(log(1, st.play_caller_changes)) - Len(st.play_caller_changes),
                           total_changes_in_analysis |-> Len(changes_in)] ]

\* run_pipeline: the tables, the status returned, the db_update stage and
\* the calls made, in order. confidence is in percent.
run_pipeline(st, team_name, year, dry_run, incremental, search_results, analysis) ==
    LET out(tables, status, db_update, steps) ==
            [play_callers |-> tables.play_callers,
             play_caller_changes |-> tables.play_caller_changes,
             status |-> status, db_update |-> db_update, steps |-> steps]
        after_search == <<"search_play_caller">>
        analyzed == <<"search_play_caller", "analyze_results">>
        lookup[school_id \in {get_school_id(team_name)}] ==
            IF school_id = 0
            THEN out(st, "team_not_found", [status |-> "team_not_found"],
                     Append(analyzed, "get_school_id"))
            ELSE IF incremental
            THEN LET r == detect_change(st, school_id, year, analysis)
                 IN  out(r, "complete", r.result,
                         analyzed \o <<"get_school_id", "detect_change">>)
            ELSE LET r == set_primary_caller(st, school_id, year, analysis)
                 IN  out(r, "complete", r.result,
                         analyzed \o <<"get_school_id", "set_primary_caller">>)
    IN  IF search_results = <<>> THEN out(st, "no_results", <<>>, after_search)
        ELSE IF analysis.confidence < 50
        THEN out(st, "low_confidence", [status |-> "skipped"], analyzed)
        ELSE IF dry_run THEN out(st, "complete", [status |-> "dry_run"], analyzed)
        ELSE lookup[get_school_id(team_name)]

\* The store before a batch run: schools 32 and 252 are the two rows of
\* Texas A&M, school 10 has no duplicate row.
BatchSchools ==
    (10 :> [name |-> "Mississippi", slug |-> "mississippi"])
    @@ (32 :> [name |-> "Texas A&M", slug |-> "texas-a&m"])
    @@ (252 :> [name |-> "Texas Am", slug |-> "texas-am"])

BatchCoaches ==
    << [name |-> "Mike Elko", school_id |-> 32, position |-> "Head Coach",
        is_head_coach |-> 1, year |-> 2025],
       [name |-> "Mike Elko", school_id |-> 252, position |-> "Head Coach",
        is_head_coach |-> 1, year |-> 2025],
       [name |-> "Dottin-CarterDennis Dottin-Carter", school_id |-> 10,
        position |-> "Assistant", is_head_coach |-> 0, year |-> 2025],
       [name |-> "Dennis Dottin-Carter", school_id |-> 10,
        position |-> "Assistant", is_head_coach |-> 0, year |-> 2025] >>

\* The coaches table before a batch run, without and with the row of an
\* earlier season for a coach who holds the same job in 2025.
BatchCoachTables ==
    { BatchCoaches,
      Append(BatchCoaches,
             [name |-> "Mike Elko", school_id |-> 32, position |-> "Head Coach",
              is_head_coach |-> 1, year |-> 2024]) }

\* What the parser of source 1 returns; source 2 is inactive.
ScrapedRows ==
    { [i \in 1..2 |-> IF i = 1 THEN r ELSE <<>>] :
        r \in {<<>>} \cup
              { <<[person_name |-> n, year |-> 2024, total_pay |-> p, school_pay |-> p - 10,
                   source |-> "osu_hr", source_date |-> d]>> :
                  n \in {"Mike Elko", "Jimbo Fisher"}, p \in {100, 200}, d \in Dates } }

\* What analyze_results returns; the confidence score is in percent.
Analyses ==
    [ primary_play_caller :
          { [name |-> "Collin Klein", title |-> "OC", is_head_coach |-> FALSE],
            [name |-> "Mike Elko", title |-> "Head Coach", is_head_coach |-> TRUE] },
      confidence : {40, 90},
      mid_season_changes :
          { <<>>, <<[new_caller |-> "Mike Elko", new_title |-> "Head Coach"]>>,
            <<[new_caller |-> "", new_title |-> ""]>>,
            <<[new_caller |-> "Mike Elko", new_title |-> "Head Coach"],
              [new_caller |-> "Mike Elko", new_title |-> "Head Coach"]>> } ]

BatchInit ==
    /\ pc = "start"
    /\ schools = BatchSchools
    /\ coaches \in BatchCoachTables
    /\ salaries \in { <<>>,
                      <<[coach_id |-> 1, year |-> 2025, total_pay |-> 100, school_pay |-> 90,
                         source |-> "osu_hr", source_date |-> "2025-01-15"]>> }
    /\ salary_sources =
          << [school_id |-> 32, source_type |-> "osu_hr", parser_name |-> "osu_hr",
              last_scraped |-> None, active |-> 1],
             [school_id |-> 10, source_type |-> "unc_system", parser_name |-> "unc_system",
              last_scraped |-> None, active |-> 0] >>
    /\ play_callers \in
          { <<>>,
            (<<32, 2025>> :> [primary_caller |-> "Collin Klein", primary_title |-> "OC",
                              is_head_coach |-> FALSE, confidence |-> 90]) }
    /\ play_caller_changes \in
          { <<>>,
            <<[school_id |-> 32, season |-> 2025, new_caller |-> "Mike Elko",
               new_title |-> "Head Coach", confidence |-> 80]>> }
    /\ op = [fn |-> "none"]
    /\ Idle({"roster", "store", "callers"})

\* merged += merge_schools(...) over the merges made
RECURSIVE SumCounts(_)
SumCounts(log) == IF log = <<>> THEN 0 ELSE log[1].count + SumCounts(Tail(log))

\* A plausible slip: a connection in autocommit mode persists every
\* statement as it is executed.
PersistedAutocommit(start, conn, dry_run, failed) ==
    IF dry_run THEN start ELSE conn

\* What the database holds once the connection of main is closed: the
\* changes made on the connection are persisted by conn.commit() alone, which
\* main reaches only with --apply and when no statement raised.
Persisted(start, conn, dry_run, failed) ==
    IF dry_run \/ failed THEN start ELSE conn

\* The steps of main at which a statement can raise: the three merges, the
\* name pass, the duplicate pass and the commit.
FailPoints == 1..6

\* fix_duplicates.py main on the tables sch and co: the outcomes it can have
\* when the statement of step fail_at raises (0: none does). An outcome is
\* the tables persisted, the report printed and the state of the connection
\* around each merge and around the duplicate pass.
fix_duplicates(sch, co, dry_run, fail_at) ==
    LET RECURSIVE merges(_, _, _)
        merges(n, db, log) ==
            IF n > Len(SCHOOL_MERGES) \/ n = fail_at THEN <<db, log>>
            ELSE LET out == merge_schools(db, SCHOOL_MERGES[n][1], SCHOOL_MERGES[n][2],
                                          dry_run)
                 IN  merges(n + 1, out,
                            Append(log, [keep_id |-> SCHOOL_MERGES[n][1],
                                         delete_id |-> SCHOOL_MERGES[n][2],
                                         count |-> out.count - db.count,
                                         before |-> [schools |-> db.schools,
                                                     coaches |-> db.coaches],
                                         after |-> [schools |-> out.schools,
                                                    coaches |-> out.coaches]]))
        start == [schools |-> sch, coaches |-> co]
        steps == <<"merge_schools", "clean_coach_names", "remove_duplicate_coaches">>
        outcome(conn, failed, nsteps, log, fixes, removed) ==
            [ schools |-> Persisted(start, conn, dry_run, failed).schools,
              coaches |-> Persisted(start, conn, dry_run, failed).coaches,
              steps |-> SubSeq(steps, 1, nsteps),
              result |-> [failed |-> failed, merges |-> log,
                          merged |-> SumCounts(log),
                          fixed |-> fixes[1], fixed_names |-> fixes[2],
                          removed |-> removed[1], removed_ids |-> removed[2],
                          dedup |-> removed[3]] ]
        run[m \in {merges(1, [schools |-> sch, coaches |-> co, count |-> 0], <<>>)}] ==
            LET conn1 == [schools |-> m[1].schools, coaches |-> m[1].coaches]
            IN  IF fail_at \in 1..3
                THEN {outcome(conn1, TRUE, 1, m[2], <<0, {}>>, <<0, {}, <<>>>>)}
                ELSE LET at[cleaned \in {clean_coach_names(m[1].coaches, dry_run)}] ==
                         LET conn2 == [schools |-> m[1].schools, coaches |-> cleaned[1]]
                             fixes == <<cleaned[2], cleaned[3]>>
                             groups == DuplicateGroups(cleaned[1])
                         IN  IF fail_at = 4
                             THEN {outcome(conn1, TRUE, 2, m[2], <<0, {}>>, <<0, {}, <<>>>>)}
                             ELSE IF fail_at = 5
                             THEN {outcome(conn2, TRUE, 3, m[2], fixes, <<0, {}, <<>>>>)}
                             ELSE { LET removed == remove_duplicate_coaches(cleaned[1],
                                                                           dry_run, keep)
                                    IN  outcome([schools |-> m[1].schools,
                                                 coaches |-> removed[1]],
                                                fail_at = 6 /\ ~dry_run, 3, m[2], fixes,
                                                <<removed[2], removed[3],
                                                  [before |-> cleaned[1],
                                                   after |-> removed[1]]>>) :
                                    keep \in { k \in [groups -> DOMAIN co] :
                                                 \A g \in groups : k[g] \in g } }
                     IN  at[clean_coach_names(m[1].coaches, dry_run)]
    IN  run[merges(1, [schools |-> sch, coaches |-> co, count |-> 0], <<>>)]

\* fix_duplicates.py [--apply]
FixDuplicates ==
    /\ pc = "start"
    /\ \E apply \in BOOLEAN, fail_at \in {0} \cup FailPoints :
       \E out \in fix_duplicates(schools, coaches, ~apply, fail_at) :
          /\ schools' = out.schools
          /\ coaches' = out.coaches
          /\ op' = [fn |-> "fix_duplicates", dry_run |-> ~apply, args |-> <<fail_at>>,
                    steps |-> out.steps, result |-> out.result]
    /\ pc' = "done"
    /\ UNCHANGED <<salaries, callerVars>>
    /\ Frame({"roster", "store", "callers"})

\* scrape_salaries.py run [--dry-run]
RunScrape ==
    /\ pc = "start"
    /\ \E dry_run \in BOOLEAN, scraped \in ScrapedRows :
       \E ran \in { run_scrape([schools |-> schools, coaches |-> coaches,
                               salaries |-> salaries, salary_sources |-> salary_sources],
                              scraped, dry_run, "2025-06-30T12:00:00+00:00") } :
          /\ salaries' = ran.salaries
          /\ salary_sources' = ran.salary_sources
          /\ op' = [fn |-> "run_scrape", dry_run |-> dry_run, args |-> <<scraped>>,
                    steps |-> ran.steps, result |-> <<>>]
    /\ pc' = "done"
    /\ UNCHANGED <<schools, coaches, play_callers, play_caller_changes>>
    /\ Frame({"roster", "store", "callers"})

\* play_caller_pipeline.py <team> [--apply] [--incremental]
RunPipeline ==
    /\ pc = "start"
    /\ \E team \in {"Texas A&M", "Ole Miss", "Mississippi"}, apply \in BOOLEAN,
          incremental \in BOOLEAN, search_results \in {<<>>, <<[source |-> "brave"]>>},
          analysis \in Analyses :
       \E ran \in { run_pipeline([play_callers |-> play_callers,
                                  play_caller_changes |-> play_caller_changes],
                                 team, 2025, ~apply, incremental, search_results, analysis) } :
          /\ play_callers' = ran.play_callers
          /\ play_caller_changes' = ran.play_caller_changes
          /\ op' = [fn |-> "run_pipeline", dry_run |-> ~apply,
                    args |-> <<team, incremental, search_results, analysis>>,
                    steps |-> ran.steps,
                    result |-> [status |-> ran.status, db_update |-> ran.db_update]]
    /\ pc' = "done"
    /\ UNCHANGED <<schools, coaches, salaries, salary_sources>>
    /\ Frame({"roster", "store", "callers"})

BatchNext == FixDuplicates \/ RunScrape \/ RunPipeline

\* The calls the opt-in run of the batch operation recorded in next-state op
\* makes on the current store with the same arguments.
OptInSteps ==
    IF op'.fn = "run_pipeline"
    THEN run_pipeline([play_callers |-> play_callers,
                       play_caller_changes |-> play_caller_changes],
                      op'.args[1], 2025, FALSE, op'.args[2], op'.args[3], op'.args[4]).steps
    ELSE IF op'.fn = "run_scrape"
    THEN run_scrape([schools |-> schools, coaches |-> coaches, salaries |-> salaries,
                     salary_sources |-> salary_sources],
                    op'.args[1], FALSE, "2025-06-30T12:00:00+00:00").steps
    ELSE (CHOOSE out \in fix_duplicates(schools, coaches, FALSE, op'.args[1]) : TRUE).steps

\* C20: a dry run of fix_duplicates, scrape_salaries or play_caller_pipeline
\* leaves every row of schools, coaches, salaries, salary_sources,
\* play_callers and play_caller_changes as it was, and it executes the full
\* matching and decision logic: every call the opt-in run with the same
\* arguments makes, other than the write of the primary caller, is made by
\* the dry run too.
C20_DryRunRunsFullLogicAndWritesNothing ==
    [][ (op'.fn \in {"fix_duplicates", "run_scrape", "run_pipeline"} /\ op'.dry_run)
        => /\ UNCHANGED <<schools, coaches, salaries, salary_sources,
                          play_callers, play_caller_changes>>
           /\ \A n \in 1..Len(OptInSteps) :
                 OptInSteps[n] # "set_primary_caller"
                 => \E m \in 1..Len(op'.steps) : op'.steps[m] = OptInSteps[n] ]_vars

\* C21: the report of a dry run of fix_duplicates is the report of --apply on
\* the same database: the same number of coaches repointed by each school
\* merge, the same names fixed and the same duplicate coach rows removed.
C21_DryRunReportIsApplyReport ==
    [][ (op'.fn = "fix_duplicates" /\ op'.dry_run /\ ~op'.result.failed)
        => \E out \in fix_duplicates(schools, coaches, FALSE, 0) :
              /\ Len(out.result.merges) = Len(op'.result.merges)
              /\ \A n \in 1..Len(out.result.merges) :
                    out.result.merges[n].count = op'.result.merges[n].count
              /\ out.result.fixed_names = op'.result.fixed_names
              /\ out.result.removed_ids = op'.result.removed_ids ]_vars

\* C22: a school merge under --apply is all-or-nothing. A merge whose two
\* schools exist leaves no coach at the deleted school, moves every coach of
\* the deleted school to the kept one, keeps the number of coach rows and
\* removes the deleted school row; a merge with a missing school changes
\* nothing; and when a step raises before the commit, nothing is persisted.
C22_MergeIsAllOrNothing ==
    [][ (op'.fn = "fix_duplicates" /\ ~op'.dry_run)
        => /\ \A n \in 1..Len(op'.result.merges) :
                LET m == op'.result.merges[n]
                    was == m.before.coaches
                    now == m.after.coaches
                IN  IF m.keep_id \in DOMAIN m.before.schools
                       /\ m.delete_id \in DOMAIN m.before.schools
                    THEN /\ DOMAIN now = DOMAIN was
                         /\ \A i \in DOMAIN now :
                               /\ now[i].school_id # m.delete_id
                               /\ was[i].school_id = m.delete_id
                                  => now[i].school_id = m.keep_id
                               /\ was[i].school_id # m.delete_id => now[i] = was[i]
                         /\ DOMAIN m.after.schools = DOMAIN m.before.schools \ {m.delete_id}
                    ELSE m.after = m.before
           /\ op'.result.failed => UNCHANGED <<schools, coaches>> ]_vars

\* An --apply run in which the first merge was made on the connection and a
\* later step raised: school 252 is still stored.
C22_Witness ==
    /\ op.fn = "fix_duplicates" /\ ~op.dry_run /\ op.result.failed
    /\ Len(op.result.merges) >= 1
    /\ op.result.merges[1].count = 1
    /\ 252 \notin DOMAIN op.result.merges[1].after.schools
    /\ 252 \in DOMAIN schools

\* C23: remove_duplicate_coaches deletes exactly the rows for which a row of
\* a lower id with the same name, school, position and season year exists,
\* so the lowest id of a group is kept and the only row of its season year
\* is never deleted.
C23_RemovesOnlyLaterRowsOfSameSeason ==
    [][ (op'.fn = "fix_duplicates" /\ ~op'.dry_run /\ ~op'.result.failed)
        => LET was == op'.result.dedup.before
               same(i, j) == /\ was[i].name = was[j].name
                             /\ was[i].school_id = was[j].school_id
                             /\ was[i].position = was[j].position
                             /\ was[i].year = was[j].year
               later == { i \in DOMAIN was : \E j \in DOMAIN was : j < i /\ same(i, j) }
           IN  /\ op'.result.removed_ids = later
               /\ DOMAIN op'.result.dedup.after = DOMAIN was \ later ]_vars

(***************************************************************************)
(* The media batch: scripts/media_enrichment.py main, enrich_coach and     *)
(* brave_search_with_retries                                               *)
(***************************************************************************)
MaxStaff == 3

\* The HTTP statuses brave_search_with_retries retries on
RetryStatuses == {429, 500, 502, 503, 504}

\* A plausible slip: the wait is not capped.
backoffUncapped(attempt, delay_s) ==
    (2 ^ attempt) * (IF delay_s > 1 THEN delay_s ELSE 1)

\* backoff = min(60.0, (2**attempt) * max(1.0, delay_s))
backoff(attempt, delay_s) ==
    LET raw == (2 ^ attempt) * (IF delay_s > 1 THEN delay_s ELSE 1)
    IN  IF raw < 60 THEN raw ELSE 60

\* key = (coach.get("coach"), coach.get("school"))
ReportKey(r) == <<r.coach, r.school>>

\* load_existing: the dict key |-> item of the file's reports, as the list of
\* its values; a later item of a key replaces the earlier one in its place.
RECURSIVE load_existing(_)
load_existing(file) ==
    IF file = <<>> THEN <<>>
    ELSE LET n == Len(file)
             before == load_existing(SubSeq(file, 1, n - 1))
             at == { i \in 1..Len(before) : ReportKey(before[i]) = ReportKey(file[n]) }
         IN  IF at = {} THEN Append(before, file[n])
             ELSE [before EXCEPT ![CHOOSE i \in at : TRUE] = file[n]]

\* The file after json.dump of the reports.
Written(rs) == [exists |-> TRUE, reports |-> rs]

\* The staff rows after load_staff, the coordinator filter and the sort by
\* (school, coach); a staff file can list one coach of a school twice.
StaffLists ==
    LET A == [coach |-> "Alice", school |-> "School X"]
        B == [coach |-> "Bob", school |-> "School X"]
        C == [coach |-> "Alice", school |-> "School Y"]
    IN  { <<A>>, <<A, B>>, <<A, B, C>>, <<A, A, B>> }

\* The output file before the run: absent, or written by an earlier run.
OutputFiles ==
    { [exists |-> FALSE, reports |-> <<>>],
      Written(<<[coach |-> "Alice", school |-> "School X", salary |-> 400000]>>),
      Written(<<[coach |-> "Bob", school |-> "School X", salary |-> 400000],
                [coach |-> "Zed", school |-> "School Z", salary |-> 400000]>>) }

\* The exceptions brave_search raises: requests.HTTPError with the status of
\* its response, or another requests.RequestException.
NoError == [kind |-> "none", status |-> 0]
HTTPError(status) == [kind |-> "HTTPError", status |-> status]
RequestException == [kind |-> "RequestException", status |-> 0]

NoSearch == [query |-> 0, attempt |-> 0, calls |-> 0, waits |-> <<>>, last_error |-> NoError]

\* main up to the loop: arguments parsed, staff loaded, existing loaded.
MediaInit ==
    /\ pc = "loop"
    /\ staff \in StaffLists
    /\ cli \in [resume : BOOLEAN, max_coaches : {1, MaxStaff}, checkpoint_every : {0, 1, 2},
                max_retries : {0, 3}, delay : {0, 30}]
    /\ output_file \in OutputFiles
    /\ existing_reports = IF cli.resume /\ output_file.exists
                          THEN load_existing(output_file.reports) ELSE <<>>
    /\ reports = existing_reports
    /\ searched = 0
    /\ cursor = 1
    /\ retry = NoSearch
    /\ searched_keys = <<>>
    /\ Idle({"media"})

\* The loop has ended: the final json.dump.
FinishRun ==
    /\ pc = "loop"
    /\ cursor > Len(staff) \/ searched >= cli.max_coaches
    /\ output_file' = Written(reports)
    /\ pc' = "done"
    /\ UNCHANGED <<staff, cli, existing_reports, reports, searched, cursor, retry,
                   searched_keys>>
    /\ Frame({"media"})

\* if args.resume and key in existing: continue
SkipCoach ==
    /\ pc = "loop"
    /\ cursor <= Len(staff) /\ searched < cli.max_coaches
    /\ cli.resume
    /\ \E i \in 1..Len(existing_reports) :
          ReportKey(existing_reports[i]) = ReportKey(staff[cursor])
    /\ cursor' = cursor + 1
    /\ UNCHANGED <<pc, staff, cli, output_file, existing_reports, reports, searched, retry,
                   searched_keys>>
    /\ Frame({"media"})

\* enrich_coach is called and makes its first query.
BeginCoach ==
    /\ pc = "loop"
    /\ cursor <= Len(staff) /\ searched < cli.max_coaches
    /\ ~(cli.resume /\ \E i \in 1..Len(existing_reports) :
                          ReportKey(existing_reports[i]) = ReportKey(staff[cursor]))
    /\ pc' = "search"
    /\ retry' = [NoSearch EXCEPT !.query = 1]
    /\ searched_keys' = Append(searched_keys, ReportKey(staff[cursor]))
    /\ UNCHANGED <<staff, cli, output_file, existing_reports, reports, searched, cursor>>
    /\ Frame({"media"})

\* main after enrich_coach returned `found` (<<>> for None): searched += 1,
\* the report is appended and the checkpoint is written when it is due.
CoachSearched(found) ==
    /\ searched' = searched + 1
    /\ reports' = reports \o found
    /\ output_file' = IF cli.checkpoint_every # 0 /\ (searched + 1) % cli.checkpoint_every = 0
                      THEN Written(reports \o found) ELSE output_file
    /\ cursor' = cursor + 1
    /\ pc' = "loop"
    /\ retry' = NoSearch

\* brave_search returns: its results hold a salary for the coach or not.
SearchReturns ==
    /\ pc = "search"
    /\ \E salary \in {0, 500000} :
          IF salary # 0
          THEN CoachSearched(<<[coach |-> staff[cursor].coach, school |-> staff[cursor].school,
                                salary |-> salary]>>)
          ELSE IF retry.query = 1
          THEN /\ retry' = [NoSearch EXCEPT !.query = 2]
               /\ UNCHANGED <<pc, output_file, reports, searched, cursor>>
          ELSE CoachSearched(<<>>)
    /\ UNCHANGED <<staff, cli, existing_reports, searched_keys>>
    /\ Frame({"media"})

\* One failed attempt of brave_search_with_retries: the error is raised, and
\* with nothing catching it in enrich_coach or main the run ends; or the
\* function sleeps backoff seconds and tries again.
Failed(error, retried) ==
    IF retried /\ retry.attempt < cli.max_retries
    THEN /\ retry' = [retry EXCEPT !.attempt = @ + 1, !.calls = @ + 1, !.last_error = error,
                                   !.waits = Append(@, backoff(retry.attempt, cli.delay))]
         /\ UNCHANGED pc
    ELSE /\ retry' = [retry EXCEPT !.calls = @ + 1, !.last_error = error]
         /\ pc' = "aborted"

\* brave_search raises requests.HTTPError for a status
SearchHttpError ==
    /\ pc = "search"
    /\ \E status \in {404, 429, 503} : Failed(HTTPError(status), status \in RetryStatuses)
    /\ UNCHANGED <<staff, cli, output_file, existing_reports, reports, searched, cursor,
                   searched_keys>>
    /\ Frame({"media"})

\* brave_search raises another requests.RequestException
SearchRequestError ==
    /\ pc = "search"
    /\ Failed(RequestException, TRUE)
    /\ UNCHANGED <<staff, cli, output_file, existing_reports, reports, searched, cursor,
                   searched_keys>>
    /\ Frame({"media"})

MediaNext ==
    FinishRun \/ SkipCoach \/ BeginCoach \/ SearchReturns \/ SearchHttpError
    \/ SearchRequestError

(***************************************************************************)
(* Claims about the media batch                                            *)
(***************************************************************************)
\* What holds of one call of brave_search_with_retries at every moment.
RetryIsBounded ==
    LET waits == retry.waits
        retried == {RequestException} \cup { HTTPError(status) : status \in RetryStatuses }
        expected(k) == LET raw == (2 ^ (k - 1)) * (IF cli.delay > 1 THEN cli.delay ELSE 1)
                       IN  IF raw > 60 THEN 60 ELSE raw
    IN  /\ retry.calls <= cli.max_retries + 1
        /\ Len(waits) = retry.attempt
        /\ \A k \in 1..Len(waits) :
              /\ waits[k] = expected(k)
              /\ waits[k] <= 60
              /\ k > 1 => waits[k - 1] <= waits[k]
        /\ (pc = "search" /\ retry.attempt > 0) => retry.last_error \in retried
        /\ (retry.last_error \notin retried /\ retry.last_error # NoError) => pc = "aborted"
        /\ pc = "aborted" => \/ retry.last_error \notin retried
                             \/ retry.calls = cli.max_retries + 1

C25_FailedSearchDoesNotAbort ==
    [][ (/\ pc = "search" /\ retry'.calls = cli.max_retries + 1
         /\ retry'.last_error # NoError /\ retry'.attempt = retry.attempt)
        => /\ pc' = "loop"
           /\ cursor' = cursor + 1
           /\ reports' = reports ]_vars

\* The keys of a list of reports, in order.
KeysOfReports(rs) == [i \in 1..Len(rs) |-> ReportKey(rs[i])]

\* C26: with --resume a coach whose key is in the output file is not
\* searched again, every report an earlier run saved is in the output file
\* at every checkpoint and at the end, no key appears twice in the output,
\* and at most max_coaches coaches are searched.
C26_ResumeSkipsSavedAndKeepsReports ==
    cli.resume =>
        LET saved == KeysOfReports(existing_reports)
            out == output_file.reports
        IN  /\ \A n \in 1..Len(searched_keys) :
                  \A i \in 1..Len(saved) : searched_keys[n] # saved[i]
            /\ \A i \in 1..Len(existing_reports) :
                  \E j \in 1..Len(out) : out[j] = existing_reports[i]
            /\ \A i, j \in 1..Len(out) : ReportKey(out[i]) = ReportKey(out[j]) => i = j
            /\ Len(searched_keys) <= cli.max_coaches

(***************************************************************************)
(* Play-caller runs that write: play_caller_pipeline.py --apply, as the    *)
(* annual sweep (set_primary_caller) and as the incremental run            *)
(* (detect_change), one after another on one database                      *)
(***************************************************************************)
MaxChanges == 3

CallerInit ==
    /\ pc = "start"
    /\ schools = BatchSchools
    /\ salaries = <<>>
    /\ salary_sources = <<>>
    /\ play_callers = <<>>
    /\ play_caller_changes = <<>>
    /\ op = [fn |-> "none"]
    /\ Idle({"store", "callers"})

\* run_pipeline(team, dry_run=False, incremental=False) from its stage 4 on
SetPrimaryCaller ==
    /\ Len(play_caller_changes) < MaxChanges
    /\ \E school_id \in {10, 32}, analysis \in Analyses :
          /\ analysis.confidence >= 50
          /\ \E ran \in { set_primary_caller([play_callers |-> play_callers,
                                              play_caller_changes |-> play_caller_changes],
                                             school_id, 2025, analysis) } :
                /\ play_callers' = ran.play_callers
                /\ play_caller_changes' = ran.play_caller_changes
                /\ op' = [fn |-> "set_primary_caller", args |-> <<school_id, 2025, analysis>>,
                          result |-> ran.result]
    /\ pc' = "ran"
    /\ UNCHANGED <<schools, salaries, salary_sources>>
    /\ Frame({"store", "callers"})

\* run_pipeline(team, dry_run=False, incremental=True) from its stage 4 on
DetectChange ==
    /\ Len(play_caller_changes) < MaxChanges
    /\ \E school_id \in {10, 32}, analysis \in Analyses :
          /\ analysis.confidence >= 50
          /\ \E ran \in { detect_change([play_callers |-> play_callers,
                                         play_caller_changes |-> play_caller_changes],
                                        school_id, 2025, analysis) } :
                /\ play_callers' = ran.play_callers
                /\ play_caller_changes' = ran.play_caller_changes
                /\ op' = [fn |-> "detect_change", args |-> <<school_id, 2025, analysis>>,
                          result |-> ran.result]
    /\ pc' = "ran"
    /\ UNCHANGED <<schools, salaries, salary_sources>>
    /\ Frame({"store", "callers"})

CallerNext == SetPrimaryCaller \/ DetectChange

(***************************************************************************)
(* Claims about the play-caller tables                                     *)
(***************************************************************************)
\* C27: an incremental run (detect_change) leaves play_callers as it was
\* whatever the analysis says. It only appends to play_caller_changes, it
\* appends nothing for a new_caller already recorded for the (school,
\* season), and it appends nothing when the (school, season) has no primary.
C27_IncrementalNeverWritesPrimary ==
    [][ op'.fn = "detect_change"
        => LET was == play_caller_changes
               now == play_caller_changes'
               key == <<op'.args[1], op'.args[2]>>
           IN  /\ play_callers' = play_callers
               /\ Len(now) >= Len(was)
               /\ SubSeq(now, 1, Len(was)) = was
               /\ \A j \in (Len(was) + 1)..Len(now) :
                     /\ <<now[j].school_id, now[j].season>> = key
                     /\ \A i \in 1..(j - 1) :
                           ~(/\ <<now[i].school_id, now[i].season>> = key
                             /\ now[i].new_caller = now[j].new_caller)
               /\ key \notin DOMAIN play_callers => now = was ]_vars

\* An incremental run whose analysis names another primary and a change that
\* is new: the change is recorded and the stored primary stays.
C27_Witness ==
    /\ op.fn = "detect_change"
    /\ op.result.status = "changes_detected"
    /\ op.result.new_changes_added = 1
    /\ op.args[3].primary_play_caller.name # play_callers[<<op.args[1], op.args[2]>>].primary_caller
    /\ Len(op.args[3].mid_season_changes) = 2

\* C28: the sweep is an overwrite. After a sweep the (school, season) has one
\* play_callers row, holding the values of the analysis, and a sweep run
\* again with the same analysis leaves play_callers and play_caller_changes
\* as they were after the first run.
C28_SweepIsIdempotentOverwrite ==
    [][ op'.fn = "set_primary_caller"
        => LET key == <<op'.args[1], op'.args[2]>>
               analysis == op'.args[3]
           IN  /\ key \in DOMAIN play_callers'
               /\ play_callers'[key].primary_caller = analysis.primary_play_caller.name
               /\ play_callers'[key].primary_title = analysis.primary_play_caller.title
               /\ play_callers'[key].confidence = analysis.confidence
               /\ (op.fn = "set_primary_caller" /\ op.args = op'.args)
                  => /\ play_callers' = play_callers
                     /\ play_caller_changes' = play_caller_changes ]_vars

(***************************************************************************)
(* Staff update monitor: scripts/staff_update_monitor.py                   *)
(***************************************************************************)
\* Runs of the monitor in one behaviour.
MaxRuns == 3

\* Articles one run collects.
MaxArticles == 2

\* CONFIG['state_retention_days']
state_retention_days == 90

\* CONFIG['coaching_keywords']
coaching_keywords ==
    << "coaching", "coach", "hire", "hired", "fired", "resign", "resigned", "promotion",
       "promoted", "coordinator", "assistant", "offensive", "defensive", "special teams",
       "staff", "appointment", "appointed", "named", "joins", "joining", "leaving",
       "departure", "departs" >>

\* any(keyword in f"{title} {description}".lower() for keyword in keywords)
is_coaching_related(article, keywords) ==
    \E k \in 1..Len(keywords) :
       Contains(ToLower(article.title \o " " \o article.description), keywords[k])

\* generate_content_hash: the digest of the link, or of title + description
\* when the link is empty; the digest is written as the text it is taken of.
generate_content_hash(article) ==
    IF article.link # "" THEN article.link ELSE article.title \o article.description

\* What fetch_rss_feeds and search_brave return.
Articles ==
    { [title |-> "Oregon hired a coordinator", link |-> "u1", description |-> ""],
      [title |-> "Lanning fired", link |-> "", description |-> "at Oregon"],
      [title |-> "Weather", link |-> "u3", description |-> "rain"] }

ArticleLists ==
    UNION { [1..n -> Articles] : n \in 0..MaxArticles }

\* The articles that pass the filter of process_articles.
CoachingRelated == { a \in Articles : is_coaching_related(a, coaching_keywords) }

\* The lists extract_coaching_changes returns for an article, before
\* source_url is set: one change, two changes, a change without a school.
ChangeLists ==
    LET smith == [school |-> "Oregon", name |-> "Jon Smith", role |-> "Offensive Coordinator"]
        lanning == [school |-> "Oregon", name |-> "Dan Lanning", role |-> "Head Coach"]
        partial == [school |-> "", name |-> "Jon Smith", role |-> "Offensive Coordinator"]
    IN  { <<smith>>, <<smith, lanning>>, <<partial>> }

\* post_to_webhook up to the request: FALSE for an incomplete change
Postable(change) == change.school # "" /\ change.name # ""

ZeroStats ==
    [total_articles |-> 0, coaching_related |-> 0, already_processed |-> 0,
     extraction_attempts |-> 0, extraction_successes |-> 0, changes_found |-> 0,
     changes_posted |-> 0, errors |-> 0]

\* cleanup_old_entries: the entries older than `days` are removed
cleanup_old_entries(hashes, days, today) ==
    [ h \in { h \in DOMAIN hashes : ~(hashes[h] < today - days) } |-> hashes[h] ]

\* No state file yet: {'processed_hashes': {}, 'last_run': None}
MonitorInit ==
    /\ pc = "idle"
    /\ processed_hashes = <<>>
    /\ last_run = <<>>
    /\ clock = 0
    /\ run_no = 0
    /\ monitor_args = [dry_run |-> FALSE]
    /\ all_articles = <<>>
    /\ article_no = 1
    /\ stats = ZeroStats
    /\ webhook_posts = <<>>
    /\ extraction_log = <<>>
    /\ Idle({"monitor"})

\* main --cleanup: the old entries are removed and the run ends.
CleanupRun ==
    /\ pc = "idle"
    /\ run_no < MaxRuns
    /\ \E elapsed \in {1, 60} :
          /\ clock' = clock + elapsed
          /\ processed_hashes' =
                cleanup_old_entries(processed_hashes, state_retention_days, clock + elapsed)
    /\ run_no' = run_no + 1
    /\ UNCHANGED <<pc, last_run, monitor_args, all_articles, article_no, stats, webhook_posts,
                   extraction_log>>
    /\ Frame({"monitor"})

\* main up to the loop of process_articles: the state is loaded and the
\* articles are collected.
StartRun ==
    /\ pc = "idle"
    /\ run_no < MaxRuns
    /\ \E dry_run \in BOOLEAN, articles \in ArticleLists, elapsed \in {1, 60} :
          /\ clock' = clock + elapsed
          /\ monitor_args' = [dry_run |-> dry_run]
          /\ all_articles' = articles
          /\ stats' = [ZeroStats EXCEPT !.total_articles = Len(articles)]
    /\ run_no' = run_no + 1
    /\ article_no' = 1
    /\ pc' = "articles"
    /\ UNCHANGED <<processed_hashes, last_run, webhook_posts, extraction_log>>
    /\ Frame({"monitor"})

\* if not is_coaching_related(article, ...): continue
SkipUnrelated ==
    /\ pc = "articles"
    /\ article_no <= Len(all_articles)
    /\ all_articles[article_no] \notin CoachingRelated
    /\ article_no' = article_no + 1
    /\ UNCHANGED <<pc, processed_hashes, last_run, clock, run_no, monitor_args, all_articles,
                   stats, webhook_posts, extraction_log>>
    /\ Frame({"monitor"})

\* if state.is_processed(content_hash): continue
SkipProcessed ==
    /\ pc = "articles"
    /\ article_no <= Len(all_articles)
    /\ all_articles[article_no] \in CoachingRelated
    /\ generate_content_hash(all_articles[article_no]) \in DOMAIN processed_hashes
    /\ stats' = [stats EXCEPT !.coaching_related = @ + 1, !.already_processed = @ + 1]
    /\ article_no' = article_no + 1
    /\ UNCHANGED <<pc, processed_hashes, last_run, clock, run_no, monitor_args, all_articles,
                   webhook_posts, extraction_log>>
    /\ Frame({"monitor"})

\* extract_coaching_changes returns None or an empty list: if not changes: continue
ExtractionFails ==
    /\ pc = "articles"
    /\ article_no <= Len(all_articles)
    /\ all_articles[article_no] \in CoachingRelated
    /\ generate_content_hash(all_articles[article_no]) \notin DOMAIN processed_hashes
    /\ extraction_log' = Append(extraction_log,
                                [run |-> run_no,
                                 hash |-> generate_content_hash(all_articles[article_no]),
                                 found |-> 0])
    /\ stats' = [stats EXCEPT !.coaching_related = @ + 1, !.extraction_attempts = @ + 1,
                              !.errors = @ + 1]
    /\ article_no' = article_no + 1
    /\ UNCHANGED <<pc, processed_hashes, last_run, clock, run_no, monitor_args, all_articles,
                   webhook_posts>>
    /\ Frame({"monitor"})

\* extract_coaching_changes returns changes: each is handed to
\* post_to_webhook, whose request succeeds or fails, and the article is
\* marked processed.
ProcessArticle ==
    /\ pc = "articles"
    /\ article_no <= Len(all_articles)
    /\ all_articles[article_no] \in CoachingRelated
    /\ generate_content_hash(all_articles[article_no]) \notin DOMAIN processed_hashes
    /\ \E found \in ChangeLists :
       \E accepted \in [1..Len(found) -> BOOLEAN] :
          LET article == all_articles[article_no]
              content_hash == generate_content_hash(article)
              requested(n) == Postable(found[n]) /\ ~monitor_args.dry_run
              returned(n) == /\ Postable(found[n])
                             /\ monitor_args.dry_run \/ accepted[n]
              payload(n) == [school |-> found[n].school, role |-> found[n].role,
                             name |-> found[n].name, source_url |-> article.link]
              received == SelectSeq([n \in 1..Len(found) |->
                                       [run |-> run_no, hash |-> content_hash, change |-> n,
                                        delivered |-> requested(n) /\ accepted[n],
                                        payload |-> payload(n)]],
                                    LAMBDA e : e.delivered)
          IN  /\ extraction_log' = Append(extraction_log,
                                          [run |-> run_no, hash |-> content_hash,
                                           found |-> Len(found)])
              /\ webhook_posts' = webhook_posts \o received
              /\ stats' = [stats EXCEPT
                              !.coaching_related = @ + 1, !.extraction_attempts = @ + 1,
                              !.extraction_successes = @ + 1,
                              !.changes_found = @ + Len(found),
                              !.changes_posted =
                                  @ + Cardinality({ n \in 1..Len(found) : returned(n) })]
              /\ processed_hashes' =
                    [ h \in DOMAIN processed_hashes \cup {content_hash} |->
                        IF h = content_hash THEN clock ELSE processed_hashes[h] ]
    /\ article_no' = article_no + 1
    /\ UNCHANGED <<pc, last_run, clock, run_no, monitor_args, all_articles>>
    /\ Frame({"monitor"})

\* main after process_articles: update_last_run, cleanup_old_entries
EndRun ==
    /\ pc = "articles"
    /\ article_no > Len(all_articles)
    /\ last_run' = <<clock>>
    /\ processed_hashes' = cleanup_old_entries(processed_hashes, state_retention_days, clock)
    /\ pc' = "idle"
    /\ UNCHANGED <<clock, run_no, monitor_args, all_articles, article_no, stats, webhook_posts,
                   extraction_log>>
    /\ Frame({"monitor"})

MonitorNext ==
    \/ CleanupRun
    \/ StartRun
    \/ SkipUnrelated
    \/ SkipProcessed
    \/ ExtractionFails
    \/ ProcessArticle
    \/ EndRun

(***************************************************************************)
(* Claims about the staff update monitor                                   *)
(***************************************************************************)
\* A hash enters the state only in a step of a run without --dry-run that
\* delivered every change extracted from the article to the webhook.
MarkedOnlyAfterPosting ==
    \A h \in DOMAIN processed_hashes' \ DOMAIN processed_hashes :
       /\ ~monitor_args.dry_run
       /\ Len(extraction_log') = Len(extraction_log) + 1
       /\ extraction_log'[Len(extraction_log')].hash = h
       /\ extraction_log'[Len(extraction_log')].found > 0
       /\ Len(webhook_posts') - Len(webhook_posts) = extraction_log'[Len(extraction_log')].found
       /\ \A n \in (Len(webhook_posts) + 1)..Len(webhook_posts') : webhook_posts'[n].hash = h

\* No step extracts from or posts for an article whose hash is in the state.
KnownHashNeverReprocessed ==
    /\ \A n \in (Len(extraction_log) + 1)..Len(extraction_log') :
          extraction_log'[n].hash \notin DOMAIN processed_hashes
    /\ \A n \in (Len(webhook_posts) + 1)..Len(webhook_posts') :
          webhook_posts'[n].hash \notin DOMAIN processed_hashes

\* C30: an article is marked processed only after the changes extracted from
\* it were actually posted to the webhook, so a --dry-run run, a failed
\* extraction and a failed webhook post leave the state without its hash; and
\* an article whose hash is in the state is never extracted or posted again.
C30_ProcessedOnlyAfterPosted ==
    [][MarkedOnlyAfterPosting /\ KnownHashNeverReprocessed]_vars

(***************************************************************************)
(* Specifications                                                          *)
(***************************************************************************)
SpecCareer == CareerInit /\ [][CareerNext]_vars

SpecSlug == SlugInit /\ [][NormalizeSchoolSlug]_vars

SpecMoney == MoneyInit /\ [][ParseMoney]_vars

SpecRepair == RepairInit /\ [][RepairNext]_vars

SpecMatch == MatchInit /\ [][MatchNext]_vars

SpecStore == StoreInit /\ [][StoreNext]_vars

SpecImport == ImportInit /\ [][ImportEnriched]_vars

SpecChanges == ChangesInit /\ [][ChangesNext]_vars

SpecTrack == TrackInit /\ [][TrackNext]_vars

SpecExtract == ExtractInit /\ [][ExtractSalary]_vars

SpecResolve == ResolveInit /\ [][ResolveNext]_vars

SpecBatch == BatchInit /\ [][BatchNext]_vars

SpecMedia == MediaInit /\ [][MediaNext]_vars

\* Every call of brave_search returns or raises, and the loop of main runs on.

SpecMediaLive == SpecMedia /\ WF_vars(MediaNext)

SpecCallers == CallerInit /\ [][CallerNext]_vars

SpecMonitor == MonitorInit /\ [][MonitorNext]_vars

====
